---- MODULE Spec2Model ----
(***************************************************************************)
(* The job engine of rtest (rtest_core/src/engine.rs): one JOB_EXECUTOR    *)
(* thread that pops jobs off the pending queue, executes them one at a     *)
(* time, updates the three "required" flags and synthesises follow-up      *)
(* jobs, together with the client threads that create jobs and call        *)
(* add_job, pause and restart, and the ThreadClutch and the job-added      *)
(* condition variable that the executor parks on.                          *)
(***************************************************************************)
EXTENDS Naturals, Sequences, FiniteSets

\* The number of jobs the client threads create in one run of the model.
MaxExternalJobs == 2

\* The threads that call add_job. main adds the ShadowCopy job before it
\* spawns the relay thread, which then adds the FileSync jobs one by one, so
\* one thread at a time is creating and adding jobs.
Clients == {"relay"}

\* The job kinds a client hands to add_job, and all kinds of JobKind.
ExternalKinds == {"ShadowCopy", "FileSync", "BuildWorkspace"}

JobKinds == ExternalKinds \cup {"BuildAllTests", "ListAllTests", "RunTests"}

\* The statuses a job's execute primitive returns (Unknown is never returned).
CompletionStatus == {"Ok", "Error"}

VARIABLES
    pending_jobs,          \* VecDeque<PendingJob>, front first
    executing_job,         \* Option<PendingJob>: <<>> or <<job>>
    completed_jobs,        \* VecDeque<CompletedJob>, oldest first
    paused,                \* ThreadClutchInner.paused
    build_tests_required,  \* BoolFlag
    list_tests_required,   \* BoolFlag
    run_tests_required,    \* BoolFlag
    ID,                    \* the static counter of JobId::new
    pc,                    \* where the executor thread is in execute_jobs
    job,                   \* the executor's local `job`: <<>> or <<job>>
    completed_job,         \* the executor's local `completed_job`
    output_parses,         \* whether the captured listing output parses
    held,                  \* the engine locks the executor thread holds
    running,               \* ids of the jobs inside their execute primitive
    client_job,            \* per client: the job created and not yet added
    created,               \* how many jobs the clients have created in this run
    appended,              \* history: every job pushed to the queue, in order
    added_while_paused,    \* history: ids added since the clutch was paused
    tests,                 \* InnerState.tests: Vec<CrateTests>
    listing,               \* parse_tests() of the output the job captured
    source_files,          \* the paths that are regular files on disk
    source_is_dir,         \* whether the source directory is a directory
    mirror,                \* the files below the destination directory
    call,                  \* the last job or function run on its own, and
                           \* what it was given and returned
    clutch_paused,         \* a ThreadClutch on its own: ThreadClutchInner.paused
    clutch_lock,           \* the thread that holds the lock on `paused`
    thread_pc,             \* where each controlled thread is
    watching,              \* the directory watcher has started to watch
    ops_buffer,            \* the operations the watcher has seen and not yet
                           \* handed to on_update
    channel,               \* the events sent and not yet executed as jobs
    destination,           \* a DestinationDirectory on its own: its variant
    references,            \* who holds a clone of it
    dir_exists,            \* whether its directory exists
    creating,              \* JobId::new on its own: the call each thread is in
    made,                  \* the ids returned, in the order returned
    ctx                    \* a ParseContext on its own: <<>> or its lines and
                           \* current_line_number

vars == <<pending_jobs, executing_job, completed_jobs, paused,
          build_tests_required, list_tests_required, run_tests_required,
          ID, pc, job, completed_job, output_parses, held, running,
          client_job, created, appended, added_while_paused, tests, listing,
          source_files, source_is_dir, mirror, call, clutch_paused,
          clutch_lock, thread_pc, watching, ops_buffer, channel,
          destination, references, dir_exists, creating, made, ctx>>

engine_vars == <<pending_jobs, executing_job, completed_jobs,
                 build_tests_required, list_tests_required,
                 run_tests_required, job, completed_job, output_parses,
                 held, running, tests, listing>>

state_vars == <<tests, listing>>

\* What the engine's threads never touch.
clutch_vars == <<clutch_paused, clutch_lock, thread_pc>>

sync_vars == <<watching, ops_buffer, channel>>

destination_vars == <<destination, references, dir_exists>>

id_vars == <<creating, made>>

cursor_vars == <<ctx>>

library_vars == <<source_files, source_is_dir, mirror, call, clutch_vars,
                  sync_vars, destination_vars, id_vars, cursor_vars>>

flag_vars == <<build_tests_required, list_tests_required, run_tests_required>>

client_vars == <<client_job, created>>

----------------------------------------------------------------------------
\* Helpers on sequences.

Ids(s) == [i \in 1..Len(s) |-> s[i].id]

Kinds(s) == [i \in 1..Len(s) |-> s[i].kind]

IdSet(s) == {s[i].id : i \in 1..Len(s)}

IsPrefix(s, t) == Len(s) <= Len(t) /\ \A i \in 1..Len(s) : s[i] = t[i]

Last(s) == s[Len(s)]

----------------------------------------------------------------------------
\* Jobs.

NewPendingJob(id, kind, external) ==
    [id |-> id, kind |-> kind, external |-> external]

NewCompletedJob(j, status) ==
    [id |-> j.id, kind |-> j.kind, external |-> j.external, status |-> status]

\* The three flags as one value.
Flags == [build |-> build_tests_required,
          list |-> list_tests_required,
          run |-> run_tests_required]

SetEngineStateFlags(kind, status, f) ==
    CASE kind = "ShadowCopy" /\ status = "Ok" -> [f EXCEPT !.build = TRUE]
      [] kind = "ShadowCopy" /\ status = "Error" -> [f EXCEPT !.build = FALSE]
      [] kind = "FileSync" /\ status = "Ok" -> [f EXCEPT !.build = TRUE]
      [] kind = "FileSync" /\ status = "Error" -> f
      [] kind = "BuildAllTests" /\ status = "Ok" ->
            [f EXCEPT !.build = FALSE, !.list = TRUE]
      [] kind = "BuildAllTests" /\ status = "Error" ->
            [f EXCEPT !.build = FALSE]
      [] kind = "BuildWorkspace" -> f
      [] kind = "ListAllTests" /\ status = "Ok" ->
            [f EXCEPT !.list = FALSE, !.run = TRUE]
      [] kind = "ListAllTests" /\ status = "Error" ->
            [f EXCEPT !.list = FALSE]
      [] kind = "RunTests" -> [f EXCEPT !.run = FALSE]
      [] OTHER -> f

\* A set_engine_state_flags in which BuildAllTests Ok asks for the run
\* instead of the listing.
CompletionFlagsSkipList(cj, f) ==
    IF cj.kind = "BuildAllTests" /\ cj.status = "Ok"
    THEN [f EXCEPT !.build = FALSE, !.run = TRUE]
    ELSE SetEngineStateFlags(cj.kind, cj.status, f)

\* A set_engine_state_flags in which a FileSync never re-arms the build.
CompletionFlagsNoRearm(cj, f) ==
    IF cj.kind = "FileSync" THEN f
    ELSE SetEngineStateFlags(cj.kind, cj.status, f)

\* Flags that an Error of any job clears.
CompletionFlagsClearOnError(cj, f) ==
    IF cj.status = "Error"
    THEN [build |-> FALSE, list |-> FALSE, run |-> FALSE]
    ELSE SetEngineStateFlags(cj.kind, cj.status, f)

\* self.set_engine_state_flags(&completed_job)
CompletionFlags(cj, f) == SetEngineStateFlags(cj.kind, cj.status, f)

\* A follow-up chosen from the last flag first.
FollowUpKindRunFirst(f) ==
    IF f.run THEN "RunTests"
    ELSE IF f.list THEN "ListAllTests"
    ELSE IF f.build THEN "BuildAllTests"
    ELSE "None"

\* The kind of the follow-up job the flags ask for, "None" when none.
FollowUpKind(f) ==
    IF f.build THEN "BuildAllTests"
    ELSE IF f.list THEN "ListAllTests"
    ELSE IF f.run THEN "RunTests"
    ELSE "None"

\* A pop from the wrong end of the queue.
PopBack(q) == [taken |-> q[Len(q)], rest |-> SubSeq(q, 1, Len(q) - 1)]

\* VecDeque::pop_front on a non-empty queue: the job taken and the rest.
PopFront(q) == [taken |-> Head(q), rest |-> Tail(q)]

\* job_added_signal.notify_all(): a thread parked on the signal wakes up.
NotifyJobAdded(p) == IF p = "sleeping" THEN "loop" ELSE p

\* condvar.notify_all() of the clutch: a thread parked on the clutch wakes up.
NotifyClutch(p) == IF p = "clutch_wait" THEN "loop" ELSE p

----------------------------------------------------------------------------
\* A ThreadClutch on its own (thread_clutch.rs), with the threads it controls.

\* The controlled threads: those that call wait_for_release.
ControlledThreads == {"w1", "w2", "w3"}

\* ThreadClutch::new(): released, nobody holds the lock, no thread has
\* called wait_for_release yet.
ClutchNew ==
    /\ clutch_paused = FALSE
    /\ clutch_lock = "free"
    /\ thread_pc = [t \in ControlledThreads |-> "running"]

\* The threads that create jobs: main, the relay of the watcher's events,
\* the executor.
Creators == {"main", "relay", "executor"}

\* No thread is in JobId::new, none has returned from it.
NoJobIdCall ==
    /\ creating = [t \in Creators |-> <<>>]
    /\ made = <<>>

\* No ParseContext has been made.
NoCursor == ctx = <<>>

\* No destination directory has been made.
NoDestination ==
    /\ destination = "SameAsSource"
    /\ references = {}
    /\ dir_exists = FALSE

\* Before start_watching: nothing is watched, seen or sent.
WatcherNew ==
    /\ watching = FALSE
    /\ ops_buffer = <<>>
    /\ channel = <<>>

----------------------------------------------------------------------------
\* The shared test state (rtest_core/src/state.rs) and the listings that
\* cargo_test_parser hands to it.

\* Crate names in ascending order of String's Ord.
NameOrder == <<"a", "b">>

NameRank(n) == CHOOSE i \in 1..Len(NameOrder) : NameOrder[i] = n

\* CrateName: `name` is the path without the hash, `uuid` the hash of the
\* build; full_name is the two joined, so a rebuilt crate keeps its name and
\* changes its full_name.
CrateNameSet ==
    {[name |-> "a", uuid |-> "1"], [name |-> "a", uuid |-> "2"],
     [name |-> "b", uuid |-> "1"]}

FullName(crate_name) == <<crate_name.name, crate_name.uuid>>

TestNames == {"t1", "t2"}

DocTestNames == {"d1"}

TestState ==
    {"NotRun", "CompilationFailing", "Running", "Passed", "Failed", "Ignored"}

\* A map with no entries (HashMap::new()).
EmptyMap == [n \in {} |-> n]

\* UnitTest::new
NewUnitTest(name) ==
    [name |-> name, state |-> "NotRun", num_times_executed |-> 0]

\* CrateTests::new: the struct has a unit_tests map and nothing for doc tests.
NewCrateTests(crate_name) ==
    [crate_name |-> crate_name, unit_tests |-> EmptyMap]

\* The doc tests stored for a crate: CrateTests has no field that holds any.
StoredDocTests(crt) == {}

\* iter().position(|t| t.crate_name.full_name == full_name), 0 for None.
Position(stored, full_name) ==
    LET hits == {i \in 1..Len(stored) :
                    FullName(stored[i].crate_name) = full_name}
    IN  IF hits = {} THEN 0
        ELSE CHOOSE i \in hits : \A k \in hits : i <= k

\* A rebuild in which a name seen again in the same listing keeps the entry
\* already carried over.
RECURSIVE RebuildKeepFirst(_, _, _)
RebuildKeepFirst(old, updated, names) ==
    IF names = <<>> THEN updated
    ELSE LET n == Head(names)
             ut == IF n \in DOMAIN updated THEN updated[n]
                   ELSE IF n \in DOMAIN old THEN old[n]
                   ELSE NewUnitTest(n)
         IN  RebuildKeepFirst(
                 old,
                 [x \in DOMAIN updated \cup {n} |->
                     IF x = n THEN ut ELSE updated[x]],
                 Tail(names))

\* The loop over test.tests: remove the name from the old map and insert
\* what was removed, or a new UnitTest when nothing was, into the new map.
RECURSIVE RebuildUnitTests(_, _, _)
RebuildUnitTests(old, updated, names) ==
    IF names = <<>> THEN updated
    ELSE LET n == Head(names)
             ut == IF n \in DOMAIN old THEN old[n] ELSE NewUnitTest(n)
         IN  RebuildUnitTests(
                 [x \in DOMAIN old \ {n} |-> old[x]],
                 [x \in DOMAIN updated \cup {n} |->
                     IF x = n THEN ut ELSE updated[x]],
                 Tail(names))

\* Ord for CrateTests compares crate_name.name only.
CrateLessOrEqual(x, y) ==
    NameRank(x.crate_name.name) <= NameRank(y.crate_name.name)

\* Put x behind the last entry that is not greater than it.
RECURSIVE InsertSorted(_, _)
InsertSorted(s, x) ==
    IF s = <<>> THEN <<x>>
    ELSE IF CrateLessOrEqual(Last(s), x) THEN Append(s, x)
    ELSE Append(InsertSorted(SubSeq(s, 1, Len(s) - 1), x), Last(s))

\* A sort that leaves the vector as it is.
SortSkipped(s) == s

\* self.tests.sort(): a stable sort.
RECURSIVE Sort(_)
Sort(s) ==
    IF s = <<>> THEN <<>>
    ELSE InsertSorted(Sort(SubSeq(s, 1, Len(s) - 1)), Last(s))

\* An update that keeps, for a crate it lists, the old entries as well.
UpdateKeepsOldTests(stored, test) ==
    LET found == Position(stored, FullName(test.crate_name))
        pushed == IF found = 0
                  THEN Append(stored, NewCrateTests(test.crate_name))
                  ELSE stored
        idx == IF found = 0 THEN Len(pushed) ELSE found
    IN  Sort([pushed EXCEPT ![idx].unit_tests =
                 RebuildUnitTests(EmptyMap, @, test.tests)])

\* update_test_list_for_crate
UpdateTestListForCrate(stored, test) ==
    LET found == Position(stored, FullName(test.crate_name))
        pushed == IF found = 0
                  THEN Append(stored, NewCrateTests(test.crate_name))
                  ELSE stored
        idx == IF found = 0 THEN Len(pushed) ELSE found
    IN  Sort([pushed EXCEPT ![idx].unit_tests =
                 RebuildUnitTests(@, EmptyMap, test.tests)])

\* The listings the test-listing command produces in the runs of the
\* engine: no crate, or one crate with one unit test.
EngineListings ==
    {<<>>,
     <<[crate_name |-> [name |-> "a", uuid |-> "1"],
        tests |-> <<"t1">>, doc_tests |-> <<>>]>>}

\* update_test_list: one crate of the listing after the other.
RECURSIVE UpdateTestList(_, _)
UpdateTestList(stored, test_list) ==
    IF test_list = <<>> THEN stored
    ELSE UpdateTestList(UpdateTestListForCrate(stored, Head(test_list)),
                        Tail(test_list))

----------------------------------------------------------------------------
\* Paths, the shadow-copy destination (shadow_copy_destination.rs) and the
\* two jobs that write to the mirror. A path is the sequence of its
\* components.

SourceDirectory == <<"src">>

DestinationDirectory == <<"dst">>

\* Path::strip_prefix: <<rest>> for Ok(rest), <<>> for Err.
StripPrefix(path, base) ==
    IF IsPrefix(base, path)
    THEN <<SubSeq(path, Len(base) + 1, Len(path))>>
    ELSE <<>>

\* get_source_sub_path: strip_prefix(&self.source_directory).unwrap().
\* <<sub>> when it returns sub, <<>> when the unwrap panics.
GetSourceSubPath(file) == StripPrefix(file, SourceDirectory)

\* get_path_in_destination: the destination directory with the sub path
\* pushed onto it; <<>> when get_source_sub_path panics.
GetPathInDestination(source_path) ==
    IF GetSourceSubPath(source_path) = <<>> THEN <<>>
    ELSE <<DestinationDirectory \o GetSourceSubPath(source_path)[1]>>

\* Path::is_dir in the mirror: the destination directory itself, and every
\* path that has a file below it.
IsDirInMirror(m, p) ==
    p = DestinationDirectory \/ \E f \in m : IsPrefix(p, f) /\ f # p

\* copy_file: std::fs::copy, once more after creating the parent directory;
\* io_ok is whether the file system lets the copy through in the end.
CopyFile(m, source_file, io_ok) ==
    LET dest == GetPathInDestination(source_file)
    IN  IF dest = <<>> THEN [ret |-> "panic", mirror |-> m]
        ELSE IF io_ok /\ ~IsDirInMirror(m, dest[1])
        THEN [ret |-> "true", mirror |-> m \cup {dest[1]}]
        ELSE [ret |-> "false", mirror |-> m]

\* remove_file_or_directory: remove_dir_all on a directory, remove_file on
\* anything else.
RemoveFileOrDirectory(m, source_path, io_ok) ==
    LET dest == GetPathInDestination(source_path)
    IN  IF dest = <<>> THEN [ret |-> "panic", mirror |-> m]
        ELSE IF IsDirInMirror(m, dest[1])
        THEN IF io_ok
             THEN [ret |-> "true",
                   mirror |-> {f \in m : ~IsPrefix(dest[1], f)}]
             ELSE [ret |-> "false", mirror |-> m]
        ELSE IF io_ok /\ dest[1] \in m
        THEN [ret |-> "true", mirror |-> m \ {dest[1]}]
        ELSE [ret |-> "false", mirror |-> m]

\* The status a job makes of what the destination returned.
StatusOf(ret) ==
    IF ret = "true" THEN "Ok" ELSE IF ret = "false" THEN "Error" ELSE "panic"

\* FileSyncJob::execute
FileSyncJobExecute(m, files, event, io_ok) ==
    IF event.kind = "FileUpdate"
    THEN IF event.path \in files
         THEN LET r == CopyFile(m, event.path, io_ok)
              IN  [status |-> StatusOf(r.ret), mirror |-> r.mirror]
         ELSE [status |-> "Error", mirror |-> m]
    ELSE LET r == RemoveFileOrDirectory(m, event.path, io_ok)
         IN  [status |-> StatusOf(r.ret), mirror |-> r.mirror]

\* The mirror after copy_file was called for every file in `walked`, the
\* copies of the files in `failing` failing.
MirrorAfterCopies(m, walked, failing) ==
    UNION ({m} \cup {CopyFile(m, f, f \notin failing).mirror : f \in walked})

\* A shadow copy that reports a failed copy as the job's error.
ShadowCopyReportsFailures(m, is_dir, walked, failing) ==
    IF ~is_dir THEN [status |-> "Error", mirror |-> m]
    ELSE [status |-> IF \A f \in walked : CopyFile(m, f, f \notin failing).ret = "true"
                     THEN "Ok" ELSE "Error",
          mirror |-> MirrorAfterCopies(m, walked, failing)]

\* ShadowCopyJob::execute: Error when the source is not a directory; else
\* copy_file for every file the walker yields, whatever each copy returns,
\* and Ok.
ShadowCopyJobExecute(m, is_dir, walked, failing) ==
    IF ~is_dir THEN [status |-> "Error", mirror |-> m]
    ELSE [status |-> "Ok", mirror |-> MirrorAfterCopies(m, walked, failing)]

----------------------------------------------------------------------------
\* The handler of the directory watcher (source_directory_watcher.rs). A
\* PathOp is a path with op, <<flags>> for Some(flags) and <<>> for None.

\* PathOp::is_remove, is_create, is_rename, is_write
IsRemove(op_type) == "REMOVE" \in op_type
IsCreate(op_type) == "CREATE" \in op_type
IsRename(op_type) == "RENAME" \in op_type
IsWrite(op_type) == "WRITE" \in op_type

\* A send_event that looks for the file first.
SendEventIfFile(op, files) ==
    IF op.path \in files
    THEN IF IsRemove(op.op[1])
         THEN <<[kind |-> "Remove", path |-> op.path]>>
         ELSE IF IsCreate(op.op[1]) \/ IsRename(op.op[1]) \/ IsWrite(op.op[1])
         THEN <<[kind |-> "FileUpdate", path |-> op.path]>>
         ELSE <<>>
    ELSE <<>>

\* send_event: the events sent for one PathOp, `files` being the paths
\* for which Path::is_file is true.
SendEvent(op, files) ==
    IF IsRemove(op.op[1])
    THEN <<[kind |-> "Remove", path |-> op.path]>>
    ELSE IF op.path \in files
            /\ (IsCreate(op.op[1]) \/ IsRename(op.op[1]) \/ IsWrite(op.op[1]))
    THEN <<[kind |-> "FileUpdate", path |-> op.path]>>
    ELSE <<>>

\* An entry that keeps the op it was inserted with.
MapEntryKeepFirst(map, op) ==
    IF \E e \in map : e.path = op.path
    THEN map
    ELSE map \cup {[path |-> op.path, ord |-> Cardinality(map), op |-> op]}

\* map.entry(op.path): an occupied entry gets the op and keeps its ord, a
\* vacant one is inserted with (map.len(), op).
MapEntry(map, op) ==
    IF \E e \in map : e.path = op.path
    THEN {IF e.path = op.path THEN [e EXCEPT !.op = op] ELSE e : e \in map}
    ELSE map \cup {[path |-> op.path, ord |-> Cardinality(map), op |-> op]}

\* for op in ops { if op.op.is_none() { continue; } ... }
RECURSIVE BuildMap(_, _)
BuildMap(map, ops) ==
    IF ops = <<>> THEN map
    ELSE BuildMap(IF Head(ops).op = <<>> THEN map
                  ELSE MapEntry(map, Head(ops)),
                  Tail(ops))

\* events.sort_by_key(|tpl| tpl.0): the ords are 0 .. len - 1, each once.
SortByOrd(map) ==
    [i \in 1..Cardinality(map) |-> CHOOSE e \in map : e.ord = i - 1]

\* for (_ord, _pb, op) in events { send_event(self, op) }
RECURSIVE SendAll(_, _)
SendAll(events, files) ==
    IF events = <<>> THEN <<>>
    ELSE SendEvent(Head(events).op, files) \o SendAll(Tail(events), files)

\* on_update: the events sent on the channel, in the order sent.
OnUpdate(ops, files) ==
    IF Len(ops) = 1
    THEN IF ops[1].op # <<>> THEN SendEvent(ops[1], files) ELSE <<>>
    ELSE SendAll(SortByOrd(BuildMap({}, ops)), files)

----------------------------------------------------------------------------
\* The parser of the test listing (cargo_test_parser). A line, trimmed, is
\* [kind, text, num]: "Running" and "Doc-tests" lines carry the text after
\* the prefix as the sequence of its characters; a "test" line
\* `name: test` and a "bench" line `name: bench` carry <<name>>; a "doctest"
\* line `file - name (line num): test` carries <<file, name>> and num; a
\* "summary" line `num tests, 0 benchmarks` carries num; a "blank" line is
\* empty.

\* char::is_ascii_hexdigit
HexDigits ==
    {"0", "1", "2", "3", "4", "5", "6", "7", "8", "9",
     "a", "b", "c", "d", "e", "f", "A", "B", "C", "D", "E", "F"}

\* str::trim: the text without its leading and trailing white space.
RECURSIVE Trim(_)
Trim(text) ==
    IF text = <<>> THEN <<>>
    ELSE IF Head(text) = " " THEN Trim(Tail(text))
    ELSE IF text[Len(text)] = " " THEN Trim(SubSeq(text, 1, Len(text) - 1))
    ELSE text

\* str::rfind for a token: the last place of tok in text, 0 for None.
RFind(text, tok) ==
    IF \E i \in 1..Len(text) : text[i] = tok
    THEN CHOOSE i \in 1..Len(text) :
            text[i] = tok /\ \A j \in (i + 1)..Len(text) : text[j] # tok
    ELSE 0

\* A check of the length only.
IsSixteenLong(data) == Len(data) = 16

\* is_valid_uuid: 16 long and every character a hex digit.
IsValidUuid(data) ==
    Len(data) = 16 /\ \A i \in 1..Len(data) : data[i] \in HexDigits

\* CrateName::parse: [ok, kind] of the error, or [ok, full_name, uuid, name,
\* basename].
CrateNameParse(text) ==
    LET full_name == Trim(text)
    IN  IF full_name = <<>>
        THEN [ok |-> FALSE, kind |-> "MalformedCrateName"]
        ELSE IF RFind(full_name, "-") # 0
        THEN LET idx == RFind(full_name, "-")
                 name == SubSeq(full_name, 1, idx - 1)
                 uuid == SubSeq(full_name, idx + 1, Len(full_name))
             IN  IF IsValidUuid(uuid)
                 THEN [ok |-> TRUE, full_name |-> full_name, uuid |-> uuid,
                       name |-> name,
                       basename |->
                           SubSeq(name, RFind(name, "/") + 1, Len(name))]
                 ELSE [ok |-> FALSE, kind |-> "MalformedUuid"]
        ELSE [ok |-> TRUE, full_name |-> full_name, uuid |-> <<>>,
              name |-> full_name, basename |-> full_name]

\* A check for the Running prefix only.
StartsRunning(line) == line.kind = "Running"

\* line.starts_with(RUNNING_PREFIX) || line.starts_with(DOC_TEST_PREFIX)
StartsSection(line) == line.kind \in {"Running", "Doc-tests"}

\* parse_test_summary_count: <<num_tests>> for Some, <<>> for None.
ParseTestSummaryCount(line) ==
    IF line.kind = "summary" THEN <<line.num>> ELSE <<>>

\* parse_unit_test: <<name>> for a line that ends with ": test", a doc-test
\* line among them, <<>> for None.
ParseUnitTest(line) ==
    IF line.kind = "test" THEN <<line.text[1]>>
    ELSE IF line.kind = "doctest"
    THEN <<line.text[1] \o " - " \o line.text[2]>>
    ELSE <<>>

\* DocTest::parse: <<doc_test>> for Ok, <<>> for MalformedDocTestLine.
DocTestParse(line) ==
    IF line.kind = "doctest"
    THEN <<[name |-> line.text[2], line_number |-> line.num,
            file_name |-> line.text[1]]>>
    ELSE <<>>

\* Ok(tests)
ParseOk(crates) ==
    [ok |-> TRUE, tests |-> crates, kind |-> "", line_number |-> 0,
     line |-> <<>>, count |-> <<>>]

\* Err(ParseError) of the given kind; line_number and line are those of
\* the cursor, which is at line i; for a miscount the message carries the
\* count found.
ParseErr(kind, lines, i, count) ==
    [ok |-> FALSE, tests |-> <<>>, kind |-> kind,
     line_number |-> i, line |-> <<lines[i]>>, count |-> count]

\* A panic inside the parser, while the cursor is at line i.
ParsePanic(lines, i) ==
    [ok |-> FALSE, tests |-> <<>>, kind |-> "panic",
     line_number |-> i, line |-> <<lines[i]>>, count |-> <<>>]

\* A check that only finds more tests than declared.
TestCountExceeds(found, declared) == found > declared

\* crate_tests.tests.len() != num_tests
TestCountDiffers(found, declared) == found # declared

\* The first crate of the result with the basename, 0 for none.
FindBasename(crates, crate_name) ==
    IF \E i \in 1..Len(crates) : crates[i].crate_name.basename = crate_name
    THEN CHOOSE i \in 1..Len(crates) :
            /\ crates[i].crate_name.basename = crate_name
            /\ \A j \in 1..(i - 1) :
                  crates[j].crate_name.basename # crate_name
    ELSE 0

RECURSIVE ParseLines(_, _, _)
RECURSIVE ParseUnitBlock(_, _, _, _)
RECURSIVE ParseDocBlock(_, _, _, _)

\* The inner loop of a Running block; i is the number of the line that
\* ctx.next() returns next.
ParseUnitBlock(lines, i, crates, crate_tests) ==
    IF i > Len(lines) THEN ParseLines(lines, i, Append(crates, crate_tests))
    ELSE LET line == lines[i]
         IN  IF line.kind = "blank"
             THEN ParseUnitBlock(lines, i + 1, crates, crate_tests)
             ELSE IF StartsSection(line)
             THEN ParseErr("SectionOverrun", lines, i, <<>>)
             ELSE IF ParseTestSummaryCount(line) # <<>>
             THEN IF TestCountDiffers(Len(crate_tests.tests),
                                      ParseTestSummaryCount(line)[1])
                  THEN ParseErr("UnitTestMiscount", lines, i,
                                <<Len(crate_tests.tests)>>)
                  ELSE ParseLines(lines, i + 1, Append(crates, crate_tests))
             ELSE IF ParseUnitTest(line) # <<>>
             THEN ParseUnitBlock(lines, i + 1, crates,
                     [crate_tests EXCEPT
                        !.tests = Append(@, ParseUnitTest(line)[1])])
             ELSE ParseUnitBlock(lines, i + 1, crates, crate_tests)

\* The inner loop of a Doc-tests block, for the crate at place c of the result.
ParseDocBlock(lines, i, crates, c) ==
    IF i > Len(lines) THEN ParseLines(lines, i, crates)
    ELSE LET line == lines[i]
         IN  IF line.kind = "blank"
             THEN ParseDocBlock(lines, i + 1, crates, c)
             ELSE IF StartsSection(line)
             THEN ParseErr("SectionOverrun", lines, i, <<>>)
             ELSE IF ParseTestSummaryCount(line) # <<>>
             THEN IF Len(crates[c].doc_tests) # ParseTestSummaryCount(line)[1]
                  THEN ParseErr("UnitTestMiscount", lines, i,
                                <<Len(crates[c].doc_tests)>>)
                  ELSE ParseLines(lines, i + 1, crates)
             ELSE IF DocTestParse(line) = <<>>
             THEN ParseErr("MalformedDocTestLine", lines, i, <<>>)
             ELSE ParseDocBlock(lines, i + 1,
                     [crates EXCEPT
                        ![c].doc_tests = Append(@, DocTestParse(line)[1])],
                     c)

\* The outer loop of parse_test_list.
ParseLines(lines, i, crates) ==
    IF i > Len(lines) THEN ParseOk(crates)
    ELSE LET line == lines[i]
         IN  IF line.kind = "Running"
             THEN LET crate_name == CrateNameParse(line.text)
                  IN  IF ~crate_name.ok
                      THEN ParseErr(crate_name.kind, lines, i, <<>>)
                      ELSE ParseUnitBlock(lines, i + 1, crates,
                              [crate_name |-> crate_name, tests |-> <<>>,
                               doc_tests |-> <<>>])
             ELSE IF line.kind = "Doc-tests"
             THEN LET crate_name == Trim(line.text)
                      parsed == CrateNameParse(line.text)
                      pushed ==
                          IF FindBasename(crates, crate_name) = 0 /\ parsed.ok
                          THEN Append(crates,
                                  [crate_name |-> parsed, tests |-> <<>>,
                                   doc_tests |-> <<>>])
                          ELSE crates
                  IN  IF FindBasename(crates, crate_name) = 0 /\ ~parsed.ok
                      THEN ParsePanic(lines, i)
                      ELSE IF FindBasename(pushed, crate_name) = 0
                      THEN ParsePanic(lines, i)
                      ELSE ParseDocBlock(lines, i + 1, pushed,
                                         FindBasename(pushed, crate_name))
             ELSE ParseLines(lines, i + 1, crates)

\* parse_test_list: data.lines(), and the loops over them.
ParseTestList(lines) == ParseLines(lines, 1, <<>>)

----------------------------------------------------------------------------
Init ==
    /\ pending_jobs = <<>>
    /\ executing_job = <<>>
    /\ completed_jobs = <<>>
    /\ paused = FALSE
    /\ build_tests_required = FALSE
    /\ list_tests_required = FALSE
    /\ run_tests_required = FALSE
    /\ ID = 1
    /\ pc = "loop"
    /\ job = <<>>
    /\ completed_job = <<>>
    /\ output_parses = TRUE
    /\ held = {}
    /\ running = {}
    /\ client_job = [c \in Clients |-> <<>>]
    /\ created = 0
    /\ appended = <<>>
    /\ added_while_paused = {}
    /\ tests = <<>>
    /\ listing = <<>>
    /\ source_files = {}
    /\ source_is_dir = TRUE
    /\ mirror = {}
    /\ call = <<>>
    /\ ClutchNew
    /\ WatcherNew
    /\ NoDestination
    /\ NoJobIdCall
    /\ NoCursor

----------------------------------------------------------------------------
\* Client threads.

\* XxxJob::new(...): JobId::new() takes the next id.
NewJob(c, kind) ==
    /\ client_job[c] = <<>>
    /\ created < MaxExternalJobs
    /\ client_job' = [client_job EXCEPT ![c] = <<NewPendingJob(ID, kind, TRUE)>>]
    /\ created' = created + 1
    /\ ID' = ID + 1
    /\ UNCHANGED <<engine_vars, paused, pc, appended, added_while_paused>>
    /\ UNCHANGED library_vars

\* add_job: lock the pending queue, push_back, notify_all, unlock.
AddJob(c) ==
    /\ client_job[c] # <<>>
    /\ "pending_jobs" \notin held
    /\ pending_jobs' = Append(pending_jobs, client_job[c][1])
    /\ appended' = Append(appended, client_job[c][1])
    /\ added_while_paused' =
          IF paused THEN added_while_paused \cup {client_job[c][1].id}
          ELSE added_while_paused
    /\ pc' = NotifyJobAdded(pc)
    /\ client_job' = [client_job EXCEPT ![c] = <<>>]
    /\ UNCHANGED <<executing_job, completed_jobs, paused, flag_vars, ID, job,
                   completed_job, output_parses, held, running, created>>
    /\ UNCHANGED <<state_vars, library_vars>>

\* pause -> pause_threads -> pause_thread.
Pause ==
    /\ paused' = TRUE
    /\ UNCHANGED <<engine_vars, ID, pc, client_vars, appended,
                   added_while_paused>>
    /\ UNCHANGED library_vars

\* restart -> release_threads -> release_thread.
Restart ==
    /\ paused' = FALSE
    /\ pc' = NotifyClutch(pc)
    /\ added_while_paused' = {}
    /\ UNCHANGED <<engine_vars, ID, client_vars, appended>>
    /\ UNCHANGED library_vars

----------------------------------------------------------------------------
\* The JOB_EXECUTOR thread: execute_jobs.

\* job_starter_clutch.wait_for_release().
WaitForRelease ==
    /\ pc = "loop"
    /\ pc' = IF paused THEN "clutch_wait" ELSE "get_next_job"
    /\ UNCHANGED <<engine_vars, paused, ID, client_vars, appended,
                   added_while_paused>>
    /\ UNCHANGED library_vars

\* get_next_job(): lock the pending queue and pop_front.
GetNextJob ==
    /\ pc = "get_next_job"
    /\ IF pending_jobs # <<>>
       THEN /\ job' = <<PopFront(pending_jobs).taken>>
            /\ pending_jobs' = PopFront(pending_jobs).rest
            /\ pc' = "start_job"
       ELSE /\ pc' = "no_job"
            /\ UNCHANGED <<job, pending_jobs>>
    /\ UNCHANGED <<executing_job, completed_jobs, paused, flag_vars, ID,
                   completed_job, output_parses, held, running, client_vars,
                   appended, added_while_paused>>
    /\ UNCHANGED <<state_vars, library_vars>>

\* A start that does not wait for job.execute() to return: the job is left
\* running and the loop goes on.
StartJobDetached ==
    /\ pc = "start_job"
    /\ executing_job' = job
    /\ running' = running \cup {job[1].id}
    /\ pc' = "loop"
    /\ UNCHANGED <<pending_jobs, completed_jobs, paused, flag_vars, ID, job,
                   completed_job, output_parses, held, client_vars, appended,
                   added_while_paused>>
    /\ UNCHANGED <<state_vars, library_vars>>

\* Lock the executing slot, fill it, and enter job.execute().
StartJob ==
    /\ pc = "start_job"
    /\ held' = held \cup {"executing_job"}
    /\ executing_job' = job
    /\ running' = running \cup {job[1].id}
    /\ pc' = "executing"
    /\ UNCHANGED <<pending_jobs, completed_jobs, paused, flag_vars, ID, job,
                   completed_job, output_parses, client_vars, appended,
                   added_while_paused>>
    /\ UNCHANGED <<state_vars, library_vars>>

\* An execute that has captured cargo's output before it reports the error.
ExecuteReturnsErrorWithOutput(status, parses, out) ==
    /\ pc = "executing"
    /\ parses = FALSE => (job[1].kind = "ListAllTests" /\ status = "Ok")
    /\ out # <<>> => (job[1].kind = "ListAllTests" /\ parses)
    /\ completed_job' = <<NewCompletedJob(job[1], status)>>
    /\ output_parses' = parses
    /\ listing' = out
    /\ running' = running \ {job[1].id}
    /\ pc' = "classify"
    /\ UNCHANGED <<pending_jobs, executing_job, completed_jobs, paused,
                   flag_vars, ID, job, held, client_vars, appended,
                   added_while_paused, tests, library_vars>>

\* job.execute() returns a CompletedJob. Only a ListAllTests job that ran
\* cargo to the end has an output: it may not parse, or parse to the
\* listing `out`; any other output is empty and parses to no crates.
ExecuteReturns(status, parses, out) ==
    /\ pc = "executing"
    /\ parses = FALSE => (job[1].kind = "ListAllTests" /\ status = "Ok")
    /\ out # <<>> => (job[1].kind = "ListAllTests" /\ status = "Ok" /\ parses)
    /\ completed_job' = <<NewCompletedJob(job[1], status)>>
    /\ output_parses' = parses
    /\ listing' = out
    /\ running' = running \ {job[1].id}
    /\ pc' = "classify"
    /\ UNCHANGED <<pending_jobs, executing_job, completed_jobs, paused,
                   flag_vars, ID, job, held, client_vars, appended,
                   added_while_paused, tests, library_vars>>

\* RunTestsJob::execute panics when the cargo process cannot be started.
ExecutePanics ==
    /\ pc = "executing"
    /\ job[1].kind = "RunTests"
    /\ running' = running \ {job[1].id}
    /\ held' = {}
    /\ pc' = "panicked"
    /\ UNCHANGED <<pending_jobs, executing_job, completed_jobs, paused,
                   flag_vars, ID, job, completed_job, output_parses,
                   client_vars, appended, added_while_paused>>
    /\ UNCHANGED <<state_vars, library_vars>>

\* The match on the kind: for a ListAllTests job of either status,
\* parse_tests().unwrap() and state.update_test_list(&tests), the parsed
\* listing going out of scope with the match arm; then
\* set_engine_state_flags.
Classify ==
    /\ pc = "classify"
    /\ IF completed_job[1].kind = "ListAllTests" /\ ~output_parses
       THEN /\ pc' = "panicked"
            /\ held' = {}
            /\ UNCHANGED <<flag_vars, tests, listing>>
       ELSE /\ tests' = IF completed_job[1].kind = "ListAllTests"
                        THEN UpdateTestList(tests, listing)
                        ELSE tests
            /\ listing' = <<>>
            /\ LET f == CompletionFlags(completed_job[1], Flags)
               IN /\ build_tests_required' = f.build
                  /\ list_tests_required' = f.list
                  /\ run_tests_required' = f.run
            /\ pc' = "lock_pending"
            /\ UNCHANGED held
    /\ UNCHANGED <<pending_jobs, executing_job, completed_jobs, paused, ID,
                   job, completed_job, output_parses, running, client_vars,
                   appended, added_while_paused, library_vars>>

\* self.pending_jobs.lock(), then self.completed_jobs.lock().
LockPending ==
    /\ pc = "lock_pending"
    /\ held' = held \cup {"pending_jobs", "completed_jobs"}
    /\ pc' = "push_completed"
    /\ UNCHANGED <<pending_jobs, executing_job, completed_jobs, paused,
                   flag_vars, ID, job, completed_job, output_parses, running,
                   client_vars, appended, added_while_paused>>
    /\ UNCHANGED <<state_vars, library_vars>>

\* A completion that is not logged before the follow-up is enqueued.
PushCompletedSkipped ==
    /\ pc = "push_completed"
    /\ held' = held \ {"completed_jobs"}
    /\ pc' = "clear_executing"
    /\ UNCHANGED <<pending_jobs, executing_job, completed_jobs, paused,
                   flag_vars, ID, job, completed_job, output_parses, running,
                   client_vars, appended, added_while_paused>>
    /\ UNCHANGED <<state_vars, library_vars>>

\* completed_jobs_lock.push_back(completed_job); drop(completed_jobs_lock).
PushCompleted ==
    /\ pc = "push_completed"
    /\ completed_jobs' = Append(completed_jobs, completed_job[1])
    /\ held' = held \ {"completed_jobs"}
    /\ pc' = "clear_executing"
    /\ UNCHANGED <<pending_jobs, executing_job, paused, flag_vars, ID, job,
                   completed_job, output_parses, running, client_vars,
                   appended, added_while_paused>>
    /\ UNCHANGED <<state_vars, library_vars>>

\* *executing_job_guard = None; drop(executing_job_guard).
ClearExecuting ==
    /\ pc = "clear_executing"
    /\ executing_job' = <<>>
    /\ held' = held \ {"executing_job"}
    /\ pc' = "follow_up"
    /\ UNCHANGED <<pending_jobs, completed_jobs, paused, flag_vars, ID, job,
                   completed_job, output_parses, running, client_vars,
                   appended, added_while_paused>>
    /\ UNCHANGED <<state_vars, library_vars>>

\* A follow-up that is added whether or not the pending queue is empty.
FollowUpWhatever ==
    /\ pc = "follow_up"
    /\ IF FollowUpKind(Flags) # "None"
       THEN /\ pending_jobs' =
                  Append(pending_jobs,
                         NewPendingJob(ID, FollowUpKind(Flags), FALSE))
            /\ appended' =
                  Append(appended, NewPendingJob(ID, FollowUpKind(Flags), FALSE))
            /\ ID' = ID + 1
       ELSE UNCHANGED <<pending_jobs, appended, ID>>
    /\ held' = held \ {"pending_jobs"}
    /\ job' = <<>>
    /\ completed_job' = <<>>
    /\ output_parses' = TRUE
    /\ pc' = "loop"
    /\ UNCHANGED <<executing_job, completed_jobs, paused, flag_vars, running,
                   client_vars, added_while_paused>>
    /\ UNCHANGED <<state_vars, library_vars>>

\* if pending_jobs_lock.is_empty() { ... add_job_inner(job, lock) }, and the
\* pending lock is released at the end of the iteration either way. The
\* notify_all of add_job_inner finds no waiter: the executor is the caller.
FollowUp ==
    /\ pc = "follow_up"
    /\ IF pending_jobs = <<>> /\ FollowUpKind(Flags) # "None"
       THEN /\ pending_jobs' =
                  <<NewPendingJob(ID, FollowUpKind(Flags), FALSE)>>
            /\ appended' =
                  Append(appended, NewPendingJob(ID, FollowUpKind(Flags), FALSE))
            /\ ID' = ID + 1
       ELSE UNCHANGED <<pending_jobs, appended, ID>>
    /\ held' = held \ {"pending_jobs"}
    /\ job' = <<>>
    /\ completed_job' = <<>>
    /\ output_parses' = TRUE
    /\ pc' = "loop"
    /\ UNCHANGED <<executing_job, completed_jobs, paused, flag_vars, running,
                   client_vars, added_while_paused>>
    /\ UNCHANGED <<state_vars, library_vars>>

\* The else branch: lock the dummy mutex and wait on job_added_signal.
Sleep ==
    /\ pc = "no_job"
    /\ pc' = "sleeping"
    /\ UNCHANGED <<engine_vars, paused, ID, client_vars, appended,
                   added_while_paused>>
    /\ UNCHANGED library_vars

\* Condvar::wait may return without a notification.
SpuriousWakeup ==
    /\ pc \in {"sleeping", "clutch_wait"}
    /\ pc' = "loop"
    /\ UNCHANGED <<engine_vars, paused, ID, client_vars, appended,
                   added_while_paused>>
    /\ UNCHANGED library_vars

Executor ==
    \/ WaitForRelease
    \/ GetNextJob
    \/ StartJob
    \/ \E status \in CompletionStatus, parses \in BOOLEAN,
          out \in EngineListings :
          ExecuteReturns(status, parses, out)
    \/ ExecutePanics
    \/ Classify
    \/ LockPending
    \/ PushCompleted
    \/ ClearExecuting
    \/ FollowUp
    \/ Sleep

Client ==
    \/ \E c \in Clients, kind \in ExternalKinds : NewJob(c, kind)
    \/ \E c \in Clients : AddJob(c)
    \/ Pause
    \/ Restart

Next == Executor \/ Client \/ SpuriousWakeup

Spec == Init /\ [][Next]_vars

\* The engine left idle by a failed BuildAllTests: a ShadowCopy completed Ok,
\* the BuildAllTests synthesised after it completed with Error, every flag
\* is false and the executor sleeps on the empty queue.
RecoveryInit ==
    /\ pending_jobs = <<>>
    /\ executing_job = <<>>
    /\ completed_jobs =
          <<NewCompletedJob(NewPendingJob(1, "ShadowCopy", TRUE), "Ok"),
            NewCompletedJob(NewPendingJob(2, "BuildAllTests", FALSE), "Error")>>
    /\ paused = FALSE
    /\ build_tests_required = FALSE
    /\ list_tests_required = FALSE
    /\ run_tests_required = FALSE
    /\ ID = 3
    /\ pc = "sleeping"
    /\ job = <<>>
    /\ completed_job = <<>>
    /\ output_parses = TRUE
    /\ held = {}
    /\ running = {}
    /\ client_job = [c \in Clients |-> <<>>]
    /\ created = 0
    /\ appended = <<NewPendingJob(1, "ShadowCopy", TRUE),
                    NewPendingJob(2, "BuildAllTests", FALSE)>>
    /\ added_while_paused = {}
    /\ tests = <<>>
    /\ listing = <<>>
    /\ source_files = {}
    /\ source_is_dir = TRUE
    /\ mirror = {}
    /\ call = <<>>
    /\ ClutchNew
    /\ WatcherNew
    /\ NoDestination
    /\ NoJobIdCall
    /\ NoCursor

\* The engine from the state a failed BuildAllTests leaves it in.
RecoverySpec == RecoveryInit /\ [][Next]_vars

\* The executor thread is scheduled fairly and a job's execution terminates;
\* nothing obliges a client to call, nor a condition variable to wake up
\* spuriously.
FairSpec == Spec /\ WF_vars(Executor)

----------------------------------------------------------------------------
\* The shared test state on its own: State::update_test_list called with
\* any listing on any stored state.

\* What a stored unit test may hold for its state and its count.
StoredResults ==
    {[state |-> "NotRun", num_times_executed |-> 0],
     [state |-> "Passed", num_times_executed |-> 1]}

UnitTestMaps ==
    UNION {{[n \in D |-> [name |-> n, state |-> f[n].state,
                          num_times_executed |-> f[n].num_times_executed]] :
               f \in [D -> StoredResults]} : D \in SUBSET TestNames}

StoredCrates ==
    {[crate_name |-> c, unit_tests |-> u] :
        c \in CrateNameSet, u \in UnitTestMaps}

\* The vectors of at most two crates the state can hold: one entry for a
\* full_name, in the order the sort leaves them in.
StoredStates ==
    {<<>>} \cup {<<x>> : x \in StoredCrates}
    \cup {p \in StoredCrates \X StoredCrates :
              /\ FullName(p[1].crate_name) # FullName(p[2].crate_name)
              /\ CrateLessOrEqual(p[1], p[2])}

\* Test names as a listing gives them: at most two, a name may repeat.
TestNameLists == {<<>>, <<"t1">>, <<"t2">>, <<"t1", "t2">>, <<"t1", "t1">>}

\* cargo_test_parser::Tests
Inventories ==
    {[crate_name |-> c, tests |-> t, doc_tests |-> d] :
        c \in CrateNameSet, t \in TestNameLists,
        d \in {<<>>} \cup {<<n>> : n \in DocTestNames}}

\* The result of parse_test_list: at most two crates, each test binary
\* being named once in a listing.
Listings ==
    {<<>>} \cup {<<x>> : x \in Inventories}
    \cup {p \in Inventories \X Inventories :
              FullName(p[1].crate_name) # FullName(p[2].crate_name)}

\* JobEngine::new: the engine before any thread has run.
EngineNew ==
    /\ pending_jobs = <<>>
    /\ executing_job = <<>>
    /\ completed_jobs = <<>>
    /\ paused = FALSE
    /\ build_tests_required = FALSE
    /\ list_tests_required = FALSE
    /\ run_tests_required = FALSE
    /\ ID = 1
    /\ pc = "loop"
    /\ job = <<>>
    /\ completed_job = <<>>
    /\ output_parses = TRUE
    /\ held = {}
    /\ running = {}
    /\ client_job = [c \in Clients |-> <<>>]
    /\ created = 0
    /\ appended = <<>>
    /\ added_while_paused = {}
    /\ listing = <<>>

\* What every call leaves alone when a function is run on its own.
engine_at_rest == <<pending_jobs, executing_job, completed_jobs, paused,
                    flag_vars, ID, pc, job, completed_job, output_parses, held,
                    running, client_vars, appended, added_while_paused, listing>>

StateInit ==
    /\ EngineNew
    /\ tests \in StoredStates
    /\ source_files = {}
    /\ source_is_dir = TRUE
    /\ mirror = {}
    /\ call = <<>>
    /\ ClutchNew
    /\ WatcherNew
    /\ NoDestination
    /\ NoJobIdCall
    /\ NoCursor

\* State::update_test_list(&test_list)
UpdateTestListCall(test_list) ==
    /\ call = <<>>
    /\ tests' = UpdateTestList(tests, test_list)
    /\ call' = [fn |-> "update_test_list", arg |-> test_list, before |-> tests]
    /\ UNCHANGED <<engine_at_rest, source_files, source_is_dir, mirror,
                   clutch_vars, sync_vars, destination_vars, id_vars,
                   cursor_vars>>

StateNext == \E test_list \in Listings : UpdateTestListCall(test_list)

StateSpec == StateInit /\ [][StateNext]_vars

----------------------------------------------------------------------------
\* The jobs that write to the mirror on their own: FileSyncJob::execute and
\* ShadowCopyJob::execute run on any file system.

\* The regular files there may be: two below the source directory and one
\* outside it.
FilePaths == {<<"src", "x">>, <<"src", "y">>, <<"tmp", "x">>}

\* The files there may be in the mirror.
MirrorPaths == {<<"dst", "x">>, <<"dst", "y", "z">>}

\* The paths a file-sync event may carry.
EventPaths == FilePaths \cup {<<"src">>, <<"tmp">>}

\* FileSyncEvent
FileSyncEvents ==
    {[kind |-> k, path |-> p] : k \in {"FileUpdate", "Remove"}, p \in EventPaths}

MirrorInit ==
    /\ EngineNew
    /\ tests = <<>>
    /\ source_is_dir \in BOOLEAN
    /\ source_files \in SUBSET FilePaths
    /\ ~source_is_dir =>
          \A f \in source_files : ~IsPrefix(SourceDirectory, f)
    /\ mirror \in SUBSET MirrorPaths
    /\ call = <<>>
    /\ ClutchNew
    /\ WatcherNew
    /\ NoDestination
    /\ NoJobIdCall
    /\ NoCursor

\* A FileSync job is executed.
FileSyncCall(event, io_ok) ==
    /\ call = <<>>
    /\ LET r == FileSyncJobExecute(mirror, source_files, event, io_ok)
       IN  /\ mirror' = r.mirror
           /\ call' = [fn |-> "FileSync", arg |-> event, before |-> mirror,
                       status |-> r.status]
    /\ UNCHANGED <<engine_at_rest, tests, source_files, source_is_dir,
                   clutch_vars, sync_vars, destination_vars, id_vars,
                   cursor_vars>>

\* A ShadowCopy job is executed: the walker yields some of the files below
\* the source directory, and some of the copies fail.
ShadowCopyCall(walked, failing) ==
    /\ call = <<>>
    /\ \A f \in walked : IsPrefix(SourceDirectory, f)
    /\ failing \subseteq walked
    /\ LET r == ShadowCopyJobExecute(mirror, source_is_dir, walked, failing)
       IN  /\ mirror' = r.mirror
           /\ call' = [fn |-> "ShadowCopy",
                       arg |-> [walked |-> walked, failing |-> failing],
                       before |-> mirror, status |-> r.status]
    /\ UNCHANGED <<engine_at_rest, tests, source_files, source_is_dir,
                   clutch_vars, sync_vars, destination_vars, id_vars,
                   cursor_vars>>

MirrorNext ==
    \/ \E event \in FileSyncEvents, io_ok \in BOOLEAN :
          FileSyncCall(event, io_ok)
    \/ \E walked \in SUBSET source_files, failing \in SUBSET source_files :
          ShadowCopyCall(walked, failing)

MirrorSpec == MirrorInit /\ [][MirrorNext]_vars

----------------------------------------------------------------------------
\* The watcher's handler on its own: on_update called with any short run of
\* path operations, over any files in place.

\* The paths the watcher reports.
WatchedPaths == {<<"src", "x">>, <<"src", "y">>}

\* The flags of an operation, and None.
OpTypes ==
    {<<>>, <<{"WRITE"}>>, <<{"CREATE"}>>, <<{"RENAME"}>>, <<{"REMOVE"}>>,
     <<{"CHMOD"}>>, <<{"CREATE", "REMOVE"}>>}

\* watchexec::pathop::PathOp
PathOps == {[path |-> p, op |-> o] : p \in WatchedPaths, o \in OpTypes}

\* The slices of operations one invocation may be given.
OpSlices ==
    {<<>>} \cup {<<a>> : a \in PathOps}
           \cup {<<a, b>> : a \in PathOps, b \in PathOps}
           \cup {<<a, b, c>> : a \in PathOps, b \in PathOps, c \in PathOps}

WatcherInit ==
    /\ EngineNew
    /\ tests = <<>>
    /\ source_is_dir = TRUE
    /\ source_files \in SUBSET WatchedPaths
    /\ mirror = {}
    /\ call = <<>>
    /\ ClutchNew
    /\ WatcherNew
    /\ NoDestination
    /\ NoJobIdCall
    /\ NoCursor

\* The watcher calls on_update(ops).
OnUpdateCall(ops) ==
    /\ call = <<>>
    /\ call' = [fn |-> "on_update", arg |-> ops,
                sent |-> OnUpdate(ops, source_files)]
    /\ UNCHANGED <<engine_at_rest, tests, source_files, source_is_dir,
                   mirror, clutch_vars, sync_vars, destination_vars,
                   id_vars, cursor_vars>>

WatcherNext == \E ops \in OpSlices : OnUpdateCall(ops)

WatcherSpec == WatcherInit /\ [][WatcherNext]_vars

----------------------------------------------------------------------------
\* The mirror kept up to date (main.rs): the ShadowCopy job is added, then
\* the watcher is started; the files below the source directory change, the
\* watcher hands what it saw to on_update, and the events sent become
\* FileSync jobs that the engine executes in the order sent.

\* The events that may wait to be executed.
EventRuns ==
    LET Events == {[kind |-> k, path |-> p] :
                      k \in {"FileUpdate", "Remove"}, p \in WatchedPaths}
    IN  {<<>>} \cup {<<a>> : a \in Events}
               \cup {<<a, b>> : a \in Events, b \in Events}

SyncInit ==
    /\ EngineNew
    /\ tests = <<>>
    /\ source_is_dir = TRUE
    /\ source_files \in SUBSET WatchedPaths
    /\ mirror = {}
    /\ call = <<>>
    /\ ClutchNew
    /\ WatcherNew
    /\ NoDestination
    /\ NoJobIdCall
    /\ NoCursor

sync_unchanged == <<engine_at_rest, tests, source_is_dir, clutch_vars,
                    destination_vars, id_vars, cursor_vars>>

\* What the watcher keeps of the operations `ops`: nothing before it
\* watches.
Seen(ops) ==
    /\ watching => ops_buffer \o ops \in OpSlices
    /\ ops_buffer' = IF watching THEN ops_buffer \o ops ELSE ops_buffer

\* source_directory_watcher::start_watching, after the ShadowCopy job was
\* added to the engine.
StartWatching ==
    /\ ~watching
    /\ watching' = TRUE
    /\ UNCHANGED <<source_files, mirror, call, ops_buffer, channel,
                   sync_unchanged>>

\* The executor executes the ShadowCopy job, the first job added: the walker
\* yields every file below the source directory and every copy goes through.
ExecuteShadowCopy ==
    /\ call = <<>>
    /\ LET r == ShadowCopyJobExecute(mirror, source_is_dir, source_files, {})
       IN  /\ mirror' = r.mirror
           /\ call' = [fn |-> "ShadowCopy",
                       arg |-> [walked |-> source_files, failing |-> {}],
                       before |-> mirror, status |-> r.status]
    /\ UNCHANGED <<source_files, sync_vars, sync_unchanged>>

\* A file below the source directory is created or written.
WriteFile(p) ==
    /\ source_files' = source_files \cup {p}
    /\ Seen(<<[path |-> p,
               op |-> IF p \in source_files THEN <<{"WRITE"}>>
                      ELSE <<{"CREATE"}>>]>>)
    /\ UNCHANGED <<mirror, call, watching, channel, sync_unchanged>>

\* A file below the source directory is deleted.
DeleteFile(p) ==
    /\ p \in source_files
    /\ source_files' = source_files \ {p}
    /\ Seen(<<[path |-> p, op |-> <<{"REMOVE"}>>]>>)
    /\ UNCHANGED <<mirror, call, watching, channel, sync_unchanged>>

\* A file below the source directory is renamed: a rename operation on the
\* old path and one on the new path.
RenameFile(p, q) ==
    /\ p \in source_files
    /\ q # p
    /\ source_files' = (source_files \ {p}) \cup {q}
    /\ Seen(<<[path |-> p, op |-> <<{"RENAME"}>>],
              [path |-> q, op |-> <<{"RENAME"}>>]>>)
    /\ UNCHANGED <<mirror, call, watching, channel, sync_unchanged>>

\* The watcher calls on_update with the operations it has seen; the events
\* go to the channel, and from there to the engine as FileSync jobs.
Deliver ==
    /\ ops_buffer # <<>>
    /\ channel \o OnUpdate(ops_buffer, source_files) \in EventRuns
    /\ channel' = channel \o OnUpdate(ops_buffer, source_files)
    /\ ops_buffer' = <<>>
    /\ UNCHANGED <<source_files, mirror, call, watching, sync_unchanged>>

\* The executor executes the next FileSync job; the ShadowCopy job was
\* added before every one of them.
ExecuteFileSync ==
    /\ call # <<>>
    /\ channel # <<>>
    /\ mirror' = FileSyncJobExecute(mirror, source_files, Head(channel),
                                    TRUE).mirror
    /\ channel' = Tail(channel)
    /\ UNCHANGED <<source_files, call, watching, ops_buffer, sync_unchanged>>

SyncNext ==
    \/ StartWatching
    \/ ExecuteShadowCopy
    \/ \E p \in WatchedPaths : WriteFile(p)
    \/ \E p \in WatchedPaths : DeleteFile(p)
    \/ \E p, q \in WatchedPaths : RenameFile(p, q)
    \/ Deliver
    \/ ExecuteFileSync

SyncSpec == SyncInit /\ [][SyncNext]_vars

----------------------------------------------------------------------------
\* A destination on its own (shadow_copy_destination.rs): it is cloned into
\* the engine and into jobs, the clones are dropped, and those that hold one
\* copy and remove through it.

\* Who may hold a clone of the destination.
Holders == {"config", "engine", "executor", "job1", "job2", "job3"}

\* without_copying, with_named_directory (which creates no directory) and
\* with_temp_destination (tempfile::tempdir() creates it).
DestinationInit ==
    /\ EngineNew
    /\ tests = <<>>
    /\ source_is_dir = TRUE
    /\ source_files = {}
    /\ mirror = {}
    /\ call = <<>>
    /\ ClutchNew
    /\ WatcherNew
    /\ destination \in {"SameAsSource", "NamedDirectory", "TempDirectory"}
    /\ references = {"config"}
    /\ dir_exists \in BOOLEAN
    /\ destination = "SameAsSource" => ~dir_exists
    /\ destination = "TempDirectory" => dir_exists
    /\ NoJobIdCall
    /\ NoCursor

destination_unchanged ==
    <<engine_at_rest, tests, source_files, source_is_dir, mirror, call,
      clutch_vars, sync_vars, id_vars, cursor_vars>>

\* is_copying
IsCopying(d) == d # "SameAsSource"

\* #[derive(Clone)]: the clone of a TempDirectory is a clone of the Arc.
CloneDestination(h, g) ==
    /\ h \in references
    /\ g \notin references
    /\ references' = references \cup {g}
    /\ UNCHANGED <<destination, dir_exists, destination_unchanged>>

\* Drop for DestinationDirectory, and the drop of its fields after it: a
\* named directory is removed; the Arc<TempDir> is released, and the TempDir
\* removes its directory when no Arc is left.
DirExistsAfterDrop(d, exists, left) ==
    IF d = "NamedDirectory" THEN FALSE
    ELSE IF d = "TempDirectory" /\ left = {} THEN FALSE
    ELSE exists

DropDestination(h) ==
    /\ h \in references
    /\ references' = references \ {h}
    /\ dir_exists' = DirExistsAfterDrop(destination, dir_exists, references')
    /\ UNCHANGED <<destination, destination_unchanged>>

\* copy_file of a file below the source directory through the clone of h:
\* when the first copy fails the destination directory is created, and the
\* copy tried again.
DestinationCopyFile(h) ==
    /\ h \in references
    /\ dir_exists' = IF IsCopying(destination) THEN TRUE ELSE dir_exists
    /\ UNCHANGED <<destination, references, destination_unchanged>>

\* remove_file_or_directory(source_path) through the clone of h: the path
\* in the destination is a directory, and removed with all below it, when
\* source_path is the source directory and the destination exists.
DestinationRemove(h, source_path) ==
    /\ h \in references
    /\ dir_exists' =
          IF /\ IsCopying(destination)
             /\ GetPathInDestination(source_path) = <<DestinationDirectory>>
          THEN FALSE
          ELSE dir_exists
    /\ UNCHANGED <<destination, references, destination_unchanged>>

DestinationNext ==
    \/ \E h, g \in Holders : CloneDestination(h, g)
    \/ \E h \in Holders : DropDestination(h)
    \/ \E h \in Holders : DestinationCopyFile(h)
    \/ \E h \in Holders, source_path \in {<<"src">>, <<"src", "x">>} :
          DestinationRemove(h, source_path)

DestinationSpec == DestinationInit /\ [][DestinationNext]_vars

----------------------------------------------------------------------------
\* JobId::new on its own (jobs.rs): the threads that create jobs call it at
\* any time, one call at a time each.

\* The calls of JobId::new a run makes.
MaxJobIds == 4

IdInit ==
    /\ EngineNew
    /\ tests = <<>>
    /\ source_is_dir = TRUE
    /\ source_files = {}
    /\ mirror = {}
    /\ call = <<>>
    /\ ClutchNew
    /\ WatcherNew
    /\ NoDestination
    /\ NoJobIdCall
    /\ NoCursor

id_unchanged ==
    <<pending_jobs, executing_job, completed_jobs, paused, flag_vars, pc, job,
      completed_job, output_parses, held, running, client_vars, appended,
      added_while_paused, listing, tests, source_files, source_is_dir, mirror,
      call, clutch_vars, sync_vars, destination_vars, cursor_vars>>

\* The calls begun so far.
CallsBegun ==
    Len(made) + Cardinality({t \in Creators : creating[t] # <<>>})

\* Thread t calls JobId::new; `began` is how many calls had returned by
\* then, and id 0 stands for no id taken yet.
BeginNew(t) ==
    /\ creating[t] = <<>>
    /\ CallsBegun < MaxJobIds
    /\ creating' = [creating EXCEPT ![t] = <<[began |-> Len(made), id |-> 0]>>]
    /\ UNCHANGED <<ID, made, id_unchanged>>

\* A counter that hands out its value and stays as it is.
FetchKeep(counter) == [previous |-> counter, counter |-> counter]

\* AtomicUsize::fetch_add(1, Ordering::SeqCst): the previous value, and the
\* counter one higher, in one step.
FetchAdd(counter) == [previous |-> counter, counter |-> counter + 1]

\* id: ID.fetch_add(1, Ordering::SeqCst)
FetchAddId(t) ==
    /\ creating[t] # <<>>
    /\ creating[t][1].id = 0
    /\ creating' = [creating EXCEPT ![t][1].id = FetchAdd(ID).previous]
    /\ ID' = FetchAdd(ID).counter
    /\ UNCHANGED <<made, id_unchanged>>

\* JobId::new returns Self { id }.
ReturnNew(t) ==
    /\ creating[t] # <<>>
    /\ creating[t][1].id # 0
    /\ made' = Append(made, creating[t][1])
    /\ creating' = [creating EXCEPT ![t] = <<>>]
    /\ UNCHANGED <<ID, id_unchanged>>

IdNext ==
    \E t \in Creators : BeginNew(t) \/ FetchAddId(t) \/ ReturnNew(t)

IdSpec == IdInit /\ [][IdNext]_vars

----------------------------------------------------------------------------
\* The parser on its own: parse_test_list given a listing of one unit-test
\* block.

\* The 16 hex digits of a crate text.
Uuid == <<"9", "b", "d", "f", "7", "e", "e", "7",
          "3", "7", "8", "A", "8", "6", "8", "4">>

\* The crate texts of the Running lines: /a-<uuid>.
CrateTexts == {<<"/", "a", "-">> \o Uuid}

\* The lines there may be between a Running line and its summary line.
BlockLines ==
    {[kind |-> "test", text |-> <<n>>, num |-> 0] : n \in {"t1", "t2"}}
        \cup {[kind |-> "bench", text |-> <<"b1">>, num |-> 0],
              [kind |-> "blank", text |-> <<>>, num |-> 0]}

\* The bodies of a block.
BlockBodies ==
    {<<>>} \cup {<<a>> : a \in BlockLines}
           \cup {<<a, b>> : a \in BlockLines, b \in BlockLines}
           \cup {<<a, b, c>> : a \in BlockLines, b \in BlockLines,
                               c \in BlockLines}

\* The numbers of tests a summary line declares.
DeclaredCounts == {0, 1, 2, 3}

\* A Running line, the body, the summary line.
UnitTestListings ==
    {<<[kind |-> "Running", text |-> c, num |-> 0]>> \o body
        \o <<[kind |-> "summary", text |-> <<>>, num |-> n]>> :
        c \in CrateTexts, body \in BlockBodies, n \in DeclaredCounts}

ParserInit ==
    /\ EngineNew
    /\ tests = <<>>
    /\ source_is_dir = TRUE
    /\ source_files = {}
    /\ mirror = {}
    /\ call = <<>>
    /\ ClutchNew
    /\ WatcherNew
    /\ NoDestination
    /\ NoJobIdCall
    /\ NoCursor

\* The lines of a short listing: a Running line of crate /a-<uuid>, the
\* Doc-tests lines of a, of b and of a-b, a unit-test line, a doc-test line,
\* a blank line, and the summary lines.
ListingLines ==
    {[kind |-> "Running", text |-> c, num |-> 0] : c \in CrateTexts}
        \cup {[kind |-> "Doc-tests", text |-> b, num |-> 0] :
                b \in {<<"a">>, <<"b">>, <<"a", "-", "b">>}}
        \cup {[kind |-> "test", text |-> <<"t1">>, num |-> 0],
              [kind |-> "doctest", text |-> <<"f", "d1">>, num |-> 3],
              [kind |-> "blank", text |-> <<>>, num |-> 0]}
        \cup {[kind |-> "summary", text |-> <<>>, num |-> n] :
                n \in {0, 1}}

\* A closed block to begin a listing with: the unit-test block of crate
\* /a-<uuid> without tests, and the doc-test block of a with one doc test.
ClosedBlocks ==
    {<<[kind |-> "Running", text |-> c, num |-> 0],
       [kind |-> "summary", text |-> <<>>, num |-> 0]>> : c \in CrateTexts}
        \cup {<<[kind |-> "Doc-tests", text |-> <<"a">>, num |-> 0],
                [kind |-> "doctest", text |-> <<"f", "d1">>, num |-> 3],
                [kind |-> "summary", text |-> <<>>, num |-> 1]>>}

\* Every listing of up to four of these lines, and the listings of a closed
\* block and up to three lines more: blocks closed and not closed, sections
\* that start inside a block, doc tests with and without their crate before
\* them.
ShortListings ==
    LET UpToThree ==
            {<<>>} \cup {<<a>> : a \in ListingLines}
                   \cup {<<a, b>> : a \in ListingLines, b \in ListingLines}
                   \cup {<<a, b, c>> : a \in ListingLines,
                                       b \in ListingLines,
                                       c \in ListingLines}
    IN  UpToThree
            \cup {<<a, b, c, d>> : a \in ListingLines, b \in ListingLines,
                                   c \in ListingLines, d \in ListingLines}
            \cup {block \o more : block \in ClosedBlocks, more \in UpToThree}

\* The texts given to CrateName::parse: a stem, then nothing or a '-' and a
\* tail, with and without white space around.
NameStems ==
    {<<>>, <<"a">>, <<"/", "a">>, <<"a", "/", "b">>, <<"/", "a", "-", "b">>,
     <<"a", " ", "b">>}

NameTails ==
    {<<>>, <<"-">>, <<"-">> \o Uuid, <<"-">> \o Tail(Uuid),
     <<"-">> \o Uuid \o <<"0">>, <<"-", "g">> \o Tail(Uuid),
     <<"-">> \o Uuid \o <<"/", "a">>}

NamePads == {<<>>, <<" ">>}

CrateNameTexts ==
    {l \o stem \o tail \o r :
        l \in NamePads, stem \in NameStems, tail \in NameTails,
        r \in NamePads}

\* CrateName::parse(full_name, &ctx) is called.
CrateNameParseCall(full_name) ==
    /\ call = <<>>
    /\ call' = [fn |-> "CrateName::parse", arg |-> full_name,
                result |-> CrateNameParse(full_name)]
    /\ UNCHANGED <<engine_at_rest, tests, source_files, source_is_dir,
                   mirror, clutch_vars, sync_vars, destination_vars,
                   id_vars, cursor_vars>>

\* parse_test_list(data) is called.
ParseTestListCall(data) ==
    /\ call = <<>>
    /\ call' = [fn |-> "parse_test_list", arg |-> data,
                result |-> ParseTestList(data)]
    /\ UNCHANGED <<engine_at_rest, tests, source_files, source_is_dir,
                   mirror, clutch_vars, sync_vars, destination_vars,
                   id_vars, cursor_vars>>

\* The listings given to parse_test_list.
ParserInputs == UnitTestListings \cup ShortListings

ParserNext ==
    \/ call = <<>> /\ \E data \in ParserInputs : ParseTestListCall(data)
    \/ call = <<>> /\ \E full_name \in CrateNameTexts :
                         CrateNameParseCall(full_name)

ParserSpec == ParserInit /\ [][ParserNext]_vars

----------------------------------------------------------------------------
\* The parse cursor on its own (parse_context.rs): a ParseContext over the
\* lines of some text, and calls of next, peek and prev in any order.

\* enum LineNumber
NotStarted == [tag |-> "NotStarted", idx |-> 0]
InProgress(idx) == [tag |-> "InProgress", idx |-> idx]
Finished == [tag |-> "Finished", idx |-> 0]

\* ParseContext::new(data): lines is data.lines().collect().
ParseContextNew(lines) ==
    [lines |-> lines, current_line_number |-> NotStarted]

\* current_line_number(): <<idx>> for Some(idx), <<>> for None.
CurrentLineNumber(c) ==
    IF c.current_line_number.tag = "InProgress"
    THEN <<c.current_line_number.idx>>
    ELSE <<>>

\* current_line(): <<line>> for Some(line), <<>> for None.
CurrentLine(c) ==
    IF c.current_line_number.tag = "InProgress"
    THEN <<c.lines[c.current_line_number.idx]>>
    ELSE <<>>

\* prev(): the context after the call.
ParseContextPrev(c) ==
    IF c.current_line_number.tag = "InProgress"
    THEN IF c.current_line_number.idx = 1
         THEN [c EXCEPT !.current_line_number = NotStarted]
         ELSE [c EXCEPT !.current_line_number =
                           InProgress(c.current_line_number.idx - 1)]
    ELSE c

\* peek(): <<line>> for Some(line), <<>> for None; the context is not
\* written.
ParseContextPeek(c) ==
    IF c.lines = <<>> THEN <<>>
    ELSE IF c.current_line_number.tag = "NotStarted" THEN <<c.lines[1]>>
    ELSE IF c.current_line_number.tag = "InProgress"
    THEN IF c.current_line_number.idx = Len(c.lines) THEN <<>>
         ELSE <<c.lines[c.current_line_number.idx + 1]>>
    ELSE <<>>

\* A next() that stays where it is and returns the line after.
ParseContextNextStays(c) == [ctx |-> c, result |-> ParseContextPeek(c)]

\* next(): the context after the call, and <<line>> for Some(line), <<>>
\* for None.
ParseContextNext(c) ==
    IF c.lines = <<>> THEN [ctx |-> c, result |-> <<>>]
    ELSE IF c.current_line_number.tag = "NotStarted"
    THEN [ctx |-> [c EXCEPT !.current_line_number = InProgress(1)],
          result |-> <<c.lines[1]>>]
    ELSE IF c.current_line_number.tag = "InProgress"
    THEN IF c.current_line_number.idx = Len(c.lines)
         THEN [ctx |-> [c EXCEPT !.current_line_number = Finished],
               result |-> <<>>]
         ELSE [ctx |-> [c EXCEPT !.current_line_number =
                                    InProgress(c.current_line_number.idx + 1)],
               result |-> <<c.lines[c.current_line_number.idx + 1]>>]
    ELSE [ctx |-> c, result |-> <<>>]

\* The lines of the texts: no line, and up to four lines out of three, one
\* of them empty.
CursorLines == {"x", "y", ""}

CursorTexts ==
    {<<>>} \cup {<<a>> : a \in CursorLines}
           \cup {<<a, b>> : a \in CursorLines, b \in CursorLines}
           \cup {<<a, b, c>> : a \in CursorLines, b \in CursorLines,
                               c \in CursorLines}
           \cup {<<a, b, c, d>> : a \in CursorLines, b \in CursorLines,
                                  c \in CursorLines, d \in CursorLines}

CursorInit ==
    /\ EngineNew
    /\ tests = <<>>
    /\ source_is_dir = TRUE
    /\ source_files = {}
    /\ mirror = {}
    /\ call = <<>>
    /\ ClutchNew
    /\ WatcherNew
    /\ NoDestination
    /\ NoJobIdCall
    /\ ctx \in {ParseContextNew(lines) : lines \in CursorTexts}

cursor_unchanged ==
    <<engine_at_rest, tests, source_files, source_is_dir, mirror,
      clutch_vars, sync_vars, destination_vars, id_vars>>

\* ctx.next() is called.
NextCall ==
    /\ ctx' = ParseContextNext(ctx).ctx
    /\ call' = [fn |-> "next", arg |-> ctx,
                result |-> ParseContextNext(ctx).result]
    /\ UNCHANGED cursor_unchanged

\* ctx.peek() is called.
PeekCall ==
    /\ call' = [fn |-> "peek", arg |-> ctx, result |-> ParseContextPeek(ctx)]
    /\ UNCHANGED <<ctx, cursor_unchanged>>

\* ctx.prev() is called.
PrevCall ==
    /\ ctx' = ParseContextPrev(ctx)
    /\ call' = [fn |-> "prev", arg |-> ctx, result |-> <<>>]
    /\ UNCHANGED cursor_unchanged

CursorNext == NextCall \/ PeekCall \/ PrevCall

CursorSpec == CursorInit /\ [][CursorNext]_vars

----------------------------------------------------------------------------
\* The clutch on its own: a controlling thread that pauses and releases, and
\* the controlled threads that call wait_for_release again and again.

ClutchInit ==
    /\ EngineNew
    /\ tests = <<>>
    /\ source_files = {}
    /\ source_is_dir = TRUE
    /\ mirror = {}
    /\ call = <<>>
    /\ clutch_paused \in BOOLEAN      \* ThreadClutch::new() or new_paused()
    /\ clutch_lock = "free"
    /\ thread_pc = [t \in ControlledThreads |-> "running"]
    /\ WatcherNew
    /\ NoDestination
    /\ NoJobIdCall
    /\ NoCursor

not_clutch_vars == <<engine_at_rest, tests, source_files, source_is_dir,
                     mirror, call, sync_vars, destination_vars, id_vars,
                     cursor_vars>>

\* pause_thread: lock, *paused = true, unlock.
PauseThread ==
    /\ clutch_lock = "free"
    /\ clutch_paused' = TRUE
    /\ UNCHANGED <<clutch_lock, thread_pc, not_clutch_vars>>

\* A release that does not notify.
ReleaseThreadNoNotify ==
    /\ clutch_lock = "free"
    /\ clutch_paused' = FALSE
    /\ UNCHANGED <<clutch_lock, thread_pc, not_clutch_vars>>

\* release_thread: lock, *paused = false, condvar.notify_all(), unlock.
ReleaseThread ==
    /\ clutch_lock = "free"
    /\ clutch_paused' = FALSE
    /\ thread_pc' = [t \in ControlledThreads |->
                        IF thread_pc[t] = "waiting" THEN "woken"
                        ELSE thread_pc[t]]
    /\ UNCHANGED <<clutch_lock, not_clutch_vars>>

\* wait_for_release, first line: self.paused.lock(). A woken thread takes
\* the lock again before condvar.wait returns.
LockPaused(t) ==
    /\ thread_pc[t] \in {"running", "woken"}
    /\ clutch_lock = "free"
    /\ clutch_lock' = t
    /\ thread_pc' = [thread_pc EXCEPT ![t] = "checking"]
    /\ UNCHANGED <<clutch_paused, not_clutch_vars>>

\* A wait_for_release that waits at most once: `if` for `while`.
CheckPausedOnce(t) ==
    /\ thread_pc[t] = "checking"
    /\ clutch_lock = t
    /\ clutch_lock' = "free"
    /\ thread_pc' = [thread_pc EXCEPT ![t] = "returned"]
    /\ UNCHANGED <<clutch_paused, not_clutch_vars>>

\* while *paused { paused = self.condvar.wait(paused) }: with the lock
\* held, either park on the condition variable, which gives the lock up in
\* the same step, or return, which drops the guard.
CheckPaused(t) ==
    /\ thread_pc[t] = "checking"
    /\ clutch_lock = t
    /\ clutch_lock' = "free"
    /\ thread_pc' = [thread_pc EXCEPT ![t] =
                        IF clutch_paused THEN "waiting" ELSE "returned"]
    /\ UNCHANGED <<clutch_paused, not_clutch_vars>>

\* Condvar::wait may wake up without a notification.
SpuriousClutchWakeup(t) ==
    /\ thread_pc[t] = "waiting"
    /\ thread_pc' = [thread_pc EXCEPT ![t] = "woken"]
    /\ UNCHANGED <<clutch_paused, clutch_lock, not_clutch_vars>>

\* The controlled thread does its work and comes back to call again.
CallAgain(t) ==
    /\ thread_pc[t] = "returned"
    /\ thread_pc' = [thread_pc EXCEPT ![t] = "running"]
    /\ UNCHANGED <<clutch_paused, clutch_lock, not_clutch_vars>>

Controlled(t) == LockPaused(t) \/ CheckPaused(t) \/ CallAgain(t)

ClutchNext ==
    \/ PauseThread
    \/ ReleaseThread
    \/ \E t \in ControlledThreads : Controlled(t)
    \/ \E t \in ControlledThreads : SpuriousClutchWakeup(t)

ClutchSpec == ClutchInit /\ [][ClutchNext]_vars

\* Every controlled thread keeps running, and a thread that keeps finding
\* the lock free at times gets it in the end.
FairClutchSpec ==
    /\ ClutchSpec
    /\ \A t \in ControlledThreads :
          WF_vars(CheckPaused(t)) /\ SF_vars(LockPaused(t))

----------------------------------------------------------------------------
\* The shape of the state.

TypeOK ==
    /\ \A i \in 1..Len(pending_jobs) : pending_jobs[i].kind \in JobKinds
    /\ \A i \in 1..Len(completed_jobs) :
          /\ completed_jobs[i].kind \in JobKinds
          /\ completed_jobs[i].status \in CompletionStatus
    /\ Len(executing_job) <= 1 /\ Len(job) <= 1 /\ Len(completed_job) <= 1
    /\ paused \in BOOLEAN
    /\ Flags \in [build : BOOLEAN, list : BOOLEAN, run : BOOLEAN]
    /\ pc \in {"loop", "clutch_wait", "get_next_job", "no_job", "sleeping",
               "start_job", "executing", "classify", "lock_pending",
               "push_completed", "clear_executing", "follow_up", "panicked"}
    /\ held \subseteq {"pending_jobs", "executing_job", "completed_jobs"}
    /\ created \in 0..MaxExternalJobs

----------------------------------------------------------------------------
\* What the claims speak of.

\* The job the executor has popped and not yet logged as completed.
InFlight ==
    IF job # <<>> /\ job[1].id \notin IdSet(completed_jobs) THEN job ELSE <<>>

\* The jobs that are queued or popped and not yet logged.
Unfinished == InFlight \o pending_jobs

ExternalAppended == SelectSeq(appended, LAMBDA j : j.external)

Chain == <<"ShadowCopy", "BuildAllTests", "ListAllTests", "RunTests">>

EngineIdle ==
    /\ pending_jobs = <<>>
    /\ executing_job = <<>>
    /\ InFlight = <<>>
    /\ FollowUpKind(Flags) = "None"

\* C1: at most one job is inside its execute primitive at any time, and it
\* is the job in the executing slot: a job begins executing only after the
\* previously executing job has returned.
SerialExecution ==
    /\ Cardinality(running) <= 1
    /\ running # {} =>
          /\ pc = "executing"
          /\ executing_job # <<>>
          /\ running = {executing_job[1].id}

\* C1 witness: a job is executing after an earlier one has completed, with
\* a further job waiting in the queue.
SerialExecutionWitness ==
    /\ running # {}
    /\ completed_jobs # <<>>
    /\ pending_jobs # <<>>

\* C2: when the only external job added is a ShadowCopy that completed Ok,
\* the jobs the engine runs are, in this order, BuildAllTests, ListAllTests
\* and RunTests, each synthesised when (and only when) its predecessor is
\* logged Ok, and nothing follows RunTests.
FollowUpChain ==
    (/\ Len(ExternalAppended) = 1
     /\ appended[1].kind = "ShadowCopy"
     /\ completed_jobs # <<>>
     /\ completed_jobs[1].status = "Ok")
    =>
    /\ IsPrefix(Kinds(appended), Chain)
    /\ IsPrefix(Ids(completed_jobs), Ids(appended))
    /\ \A i \in 2..Len(appended) :
          /\ Len(completed_jobs) >= i - 1
          /\ completed_jobs[i - 1].status = "Ok"
    /\ \A i \in 1..Len(completed_jobs) :
          (/\ completed_jobs[i].status = "Ok"
           /\ i < Len(Chain)
           /\ ~(i = Len(completed_jobs) /\ pc \in {"clear_executing", "follow_up"}))
          => Len(appended) > i

\* C2 witness: the whole chain has run Ok after a single ShadowCopy and the
\* executor sleeps on an empty queue.
FollowUpChainWitness ==
    /\ Len(ExternalAppended) = 1
    /\ Kinds(completed_jobs) = Chain
    /\ \A i \in 1..Len(completed_jobs) : completed_jobs[i].status = "Ok"
    /\ pending_jobs = <<>>
    /\ pc = "sleeping"

\* C3: once a BuildAllTests job is logged with Error, the engine has not
\* enqueued (and is not running) a ListAllTests job as its follow-up.
ErrorDampening ==
    (/\ completed_jobs # <<>>
     /\ Last(completed_jobs).kind = "BuildAllTests"
     /\ Last(completed_jobs).status = "Error")
    => \A i \in 1..Len(Unfinished) : Unfinished[i].kind # "ListAllTests"

\* C4: once a ListAllTests job is logged with Error, the engine has not
\* enqueued (and is not running) a RunTests job as its follow-up.
ListErrorStopsFollowUps ==
    (/\ completed_jobs # <<>>
     /\ Last(completed_jobs).kind = "ListAllTests"
     /\ Last(completed_jobs).status = "Error")
    => \A i \in 1..Len(Unfinished) : Unfinished[i].kind # "RunTests"

\* C5: while the clutch is paused (pause() has returned and restart() has
\* not been called since), no job begins executing.
PausedStartsNoJob ==
    [][paused => ~(pc = "start_job" /\ pc' = "executing")]_vars

\* C6: a job added while the engine is paused stays in the pending queue
\* for as long as the engine stays paused.
PauseResumeContinuity ==
    paused => added_while_paused \subseteq IdSet(pending_jobs)

\* The largest job id a run can hand out: each external job and the at most
\* three follow-ups after it.
MaxJobId == MaxExternalJobs * Len(Chain)

\* C7: when the engine is never paused and no job's execution panics, every
\* job in the pending queue is eventually in the completed log.
AddedJobIsExecuted ==
    ([]~paused /\ [](pc # "panicked")) =>
        \A i \in 1..MaxJobId :
            [](i \in IdSet(pending_jobs) => <>(i \in IdSet(completed_jobs)))

\* The follow-ups synthesised since the last external job was appended.
TrailingFollowUps ==
    LET ext == {i \in 1..Len(appended) : appended[i].external}
        last == IF ext = {} THEN 0
                ELSE CHOOSE i \in ext : \A k \in ext : k <= i
    IN  Len(appended) - last

\* At most three follow-ups are synthesised after the last external job.
FollowUpsBounded == TrailingFollowUps <= Len(Chain) - 1

\* C8: at most three follow-ups are synthesised after the last external
\* job, and an engine that is not left paused (and whose executor does not
\* panic) ends up idle for good once no further external job is added.
NoInfiniteRetry ==
    /\ []FollowUpsBounded
    /\ (<>[]~paused /\ [](pc # "panicked")) => <>[]EngineIdle

\* A FileSync logged Ok at position i after an earlier failed BuildAllTests,
\* with only external jobs logged from i on.
FileSyncRearmed(i) ==
    /\ completed_jobs[i].kind = "FileSync"
    /\ completed_jobs[i].status = "Ok"
    /\ \E h \in 1..(i - 1) :
          /\ completed_jobs[h].kind = "BuildAllTests"
          /\ completed_jobs[h].status = "Error"
    /\ \A k \in i..Len(completed_jobs) : completed_jobs[k].external

\* The step in which a completed job finds the pending queue empty.
CompletesWithEmptyQueue ==
    pc = "follow_up" /\ pc' = "loop" /\ pending_jobs = <<>>

SynthesisesBuildAllTests ==
    /\ Len(pending_jobs') = 1
    /\ pending_jobs'[1].kind = "BuildAllTests"
    /\ ~pending_jobs'[1].external

\* The state RecoverySpec starts in, as the engine reaches it from Init.
RecoveryInitReached ==
    /\ Kinds(completed_jobs) = <<"ShadowCopy", "BuildAllTests">>
    /\ completed_jobs[1].status = "Ok"
    /\ completed_jobs[2].status = "Error"
    /\ appended = <<NewPendingJob(1, "ShadowCopy", TRUE),
                    NewPendingJob(2, "BuildAllTests", FALSE)>>
    /\ pending_jobs = <<>>
    /\ FollowUpKind(Flags) = "None"
    /\ ID = 3
    /\ pc = "sleeping"
    /\ <<executing_job, job, completed_job>> = <<<<>>, <<>>, <<>>>>
    /\ held = {} /\ running = {} /\ ~paused /\ output_parses
    /\ client_job = [c \in Clients |-> <<>>]
    /\ added_while_paused = {}

NothingClearsBuildFrom(i) ==
    \A k \in i..Len(completed_jobs) :
        /\ ~(completed_jobs[k].kind = "ShadowCopy"
             /\ completed_jobs[k].status = "Error")
        /\ completed_jobs[k].kind # "BuildAllTests"

FifoOrder ==
    Ids(completed_jobs) \o Ids(InFlight) \o Ids(pending_jobs) = Ids(appended)

\* C10 witness: two jobs wait in the queue behind completed ones, and the
\* order of appending differs from the order of the job ids.
FifoOrderWitness ==
    /\ Len(pending_jobs) >= 2
    /\ completed_jobs # <<>>
    /\ \E i, k \in 1..Len(appended) :
          i < k /\ appended[i].id > appended[k].id

\* The job appended just before job j: for a synthesised job, the job whose
\* completion found the queue empty and triggered it.
TriggerOf(j) ==
    LET p == CHOOSE k \in 1..Len(appended) : appended[k].id = j.id
    IN  IF p > 1 THEN <<appended[p - 1]>> ELSE <<>>

\* Every synthesised job in the queue has its trigger in the completed log.
TriggerIsLogged ==
    \A i \in 1..Len(pending_jobs) :
        ~pending_jobs[i].external =>
            /\ TriggerOf(pending_jobs[i]) # <<>>
            /\ TriggerOf(pending_jobs[i])[1].id \in IdSet(completed_jobs)

\* The step that enqueues a synthesised job finds the job the executor has
\* just completed already at the end of the log, and it is the trigger.
EnqueuedAfterLogged ==
    \A i \in 1..Len(pending_jobs') :
        (~pending_jobs'[i].external
         /\ pending_jobs'[i].id \notin IdSet(pending_jobs))
        => /\ job # <<>>
           /\ completed_jobs # <<>>
           /\ Last(completed_jobs).id = job[1].id
           /\ completed_jobs' = completed_jobs
           /\ Last(appended).id = job[1].id
           /\ appended' = Append(appended, pending_jobs'[i])

\* C11: whenever a synthesised follow-up job is in the pending queue, the
\* job whose completion triggered it is already in the completed log: the
\* completing job is logged before its follow-up is enqueued.
CausalLogOrder == []TriggerIsLogged /\ [][EnqueuedAfterLogged]_vars

\* C11 witness: a synthesised ListAllTests job waits in the queue and the
\* BuildAllTests job that triggered it is the last job in the log.
CausalLogOrderWitness ==
    /\ Len(pending_jobs) = 1
    /\ pending_jobs[1].kind = "ListAllTests"
    /\ ~pending_jobs[1].external
    /\ completed_jobs # <<>>
    /\ Last(completed_jobs).kind = "BuildAllTests"
    /\ TriggerOf(pending_jobs[1]) # <<>>
    /\ TriggerOf(pending_jobs[1])[1].id = Last(completed_jobs).id

\* C12: the executor thread holds at most one of the engine's locks at any
\* moment, and none of them while a job's execute primitive is running or
\* while it waits on the job-added condition variable.
ExecutorLockDiscipline ==
    /\ Cardinality(held) <= 1
    /\ running # {} => held = {}
    /\ pc = "sleeping" => held = {}

\* C13: when the output of a ListAllTests job fails to parse, the executor
\* goes on to log the job with status Error, clears list_required and does
\* not set run_required.
ParseFailureIsJobError ==
    [][(pc = "classify"
        /\ completed_job[1].kind = "ListAllTests"
        /\ ~output_parses)
       => /\ pc' = "lock_pending"
          /\ completed_job'[1].status = "Error"
          /\ ~list_tests_required'
          /\ run_tests_required' = run_tests_required]_vars

\* A FileSync job was run with a path that is not at or below the source
\* directory.
OutsideEventRun ==
    /\ call # <<>>
    /\ call.fn = "FileSync"
    /\ ~IsPrefix(SourceDirectory, call.arg.path)

\* C14: a FileSync job whose path is not below the source directory changes
\* nothing in the mirror and ends without an error and without a panic.
OutsideEventIsDropped ==
    OutsideEventRun => (call.status = "Ok" /\ mirror = call.before)

ShadowCopyRun == call # <<>> /\ call.fn = "ShadowCopy"

\* C15 as stated: a ShadowCopy job completes Ok for every state of the
\* source tree.
ShadowCopyAlwaysOk == ShadowCopyRun => call.status = "Ok"

\* C15 amended: a ShadowCopy job whose source directory is a directory
\* completes Ok, whatever copies fail and whatever the walker leaves out.
ShadowCopyOkOnDirectory ==
    (ShadowCopyRun /\ source_is_dir) => call.status = "Ok"

\* C15 witness: a ShadowCopy completed Ok with one copy made and another
\* one failed.
ShadowCopyOkOnDirectoryWitness ==
    /\ ShadowCopyRun
    /\ source_is_dir
    /\ call.arg.failing # {}
    /\ mirror # call.before
    /\ call.status = "Ok"

\* C16: the shared test state changes only in the step that classifies a
\* ListAllTests job that completed Ok.
StateChangesOnlyOnListOk ==
    [][tests' # tests =>
          /\ pc = "classify"
          /\ completed_job[1].kind = "ListAllTests"
          /\ completed_job[1].status = "Ok"]_vars

\* C16 witness: a ListAllTests job has completed with Error after an earlier
\* one had filled the state, and jobs of other kinds have completed since.
StateChangesOnlyOnListOkWitness ==
    /\ tests # <<>>
    /\ \E i \in 1..Len(completed_jobs) :
          /\ completed_jobs[i].kind = "ListAllTests"
          /\ completed_jobs[i].status = "Error"
          /\ \E h \in 1..(i - 1) :
                /\ completed_jobs[h].kind = "ListAllTests"
                /\ completed_jobs[h].status = "Ok"
    /\ pc = "loop"

UpdateRun == call # <<>> /\ call.fn = "update_test_list"

\* The full names a listing mentions.
ListedFullNames(test_list) ==
    {FullName(test_list[i].crate_name) : i \in 1..Len(test_list)}

\* The entries stored for a full name.
EntriesFor(stored, full_name) ==
    {i \in 1..Len(stored) : FullName(stored[i].crate_name) = full_name}

Range(seq) == {seq[i] : i \in 1..Len(seq)}

\* C17: after update_test_list with listing L, each crate of L has one
\* entry whose unit-test names are exactly the names L lists for it, and
\* each crate stored before and not mentioned in L has its entry unchanged.
ListedCratesMatch ==
    UpdateRun =>
        /\ \A i \in 1..Len(call.arg) :
              /\ Cardinality(EntriesFor(tests, FullName(call.arg[i].crate_name))) = 1
              /\ \A k \in EntriesFor(tests, FullName(call.arg[i].crate_name)) :
                    DOMAIN tests[k].unit_tests = Range(call.arg[i].tests)
        /\ \A i \in 1..Len(call.before) :
              FullName(call.before[i].crate_name) \notin ListedFullNames(call.arg)
              => /\ call.before[i] \in Range(tests)
                 /\ Cardinality(EntriesFor(tests,
                        FullName(call.before[i].crate_name))) = 1

\* C17 witness: the listing drops a test of a crate that was stored, adds a
\* crate, and leaves another stored crate unmentioned.
ListedCratesMatchWitness ==
    /\ UpdateRun
    /\ Len(call.before) = 2
    /\ Len(tests) = 3
    /\ \E i \in 1..Len(call.arg), k \in 1..Len(call.before) :
          /\ FullName(call.arg[i].crate_name) = FullName(call.before[k].crate_name)
          /\ DOMAIN call.before[k].unit_tests = TestNames
          /\ Range(call.arg[i].tests) = {"t1"}

\* What the rebuilt map must hold for a name: the entry stored before for
\* it, or a new one.
ExpectedUnitTest(old_entries, name) ==
    IF \E e \in old_entries : name \in DOMAIN e.unit_tests
    THEN (CHOOSE e \in old_entries : name \in DOMAIN e.unit_tests).unit_tests[name]
    ELSE NewUnitTest(name)

CratesSorted ==
    UpdateRun =>
        \A i \in 1..Len(tests), k \in 1..Len(tests) :
            i < k => CrateLessOrEqual(tests[i], tests[k])

\* C19 witness: a crate new to the state was pushed behind a crate of a
\* greater name and the sort has moved it in front.
CratesSortedWitness ==
    /\ UpdateRun
    /\ Len(call.before) = 1
    /\ Len(tests) = 2
    /\ FullName(tests[2].crate_name) = FullName(call.before[1].crate_name)
    /\ NameRank(tests[1].crate_name.name) < NameRank(tests[2].crate_name.name)

\* C20: after update_test_list the doc tests stored for each crate of the
\* listing are exactly the doc tests the listing gives for it.
DocTestsRebuilt ==
    UpdateRun =>
        \A i \in 1..Len(call.arg) :
            \A k \in EntriesFor(tests, FullName(call.arg[i].crate_name)) :
                StoredDocTests(tests[k]) = Range(call.arg[i].doc_tests)

----------------------------------------------------------------------------
\* The clutch (thread_clutch.rs).

ClutchTypeOK ==
    /\ clutch_paused \in BOOLEAN
    /\ clutch_lock \in ControlledThreads \cup {"free"}
    /\ thread_pc \in [ControlledThreads ->
                        {"running", "checking", "waiting", "woken", "returned"}]

\* Thread t is inside wait_for_release.
InWaitForRelease(t) == thread_pc[t] \in {"checking", "waiting", "woken"}

\* Thread t returns from wait_for_release in this step.
WaitForReleaseReturns(t) ==
    InWaitForRelease(t) /\ thread_pc'[t] = "returned"

\* C21: wait_for_release returns at once when the clutch is released, and
\* when it is paused does not return until release: the thread that holds
\* the lock and finds the clutch released returns in its next step, the one
\* that finds it paused parks, and no thread returns from wait_for_release
\* while the clutch is paused.
ClutchHoldsWhilePaused ==
    [][\A t \in ControlledThreads :
          /\ WaitForReleaseReturns(t) => (~clutch_paused /\ ~clutch_paused')
          /\ (thread_pc[t] = "checking" /\ thread_pc'[t] # thread_pc[t]) =>
                thread_pc'[t] = IF clutch_paused THEN "waiting"
                                ELSE "returned"
          /\ (thread_pc[t] = "waiting" /\ thread_pc'[t] # thread_pc[t]) =>
                thread_pc'[t] = "woken"]_vars

\* A thread that was woken while the clutch is paused holds the lock and is
\* about to look at the flag again.
ClutchHoldsWhilePausedWitness ==
    \E t \in ControlledThreads :
        /\ thread_pc[t] = "checking"
        /\ clutch_paused
        /\ \E u \in ControlledThreads : thread_pc[u] = "waiting"

\* No thread is parked on the condition variable of a released clutch.
ReleasedClutchParksNoThread ==
    \A t \in ControlledThreads : thread_pc[t] = "waiting" => clutch_paused

\* The step that releases the clutch wakes every parked thread.
ReleaseWakesWaiters ==
    (clutch_paused /\ ~clutch_paused') =>
        \A t \in ControlledThreads :
            thread_pc[t] = "waiting" => thread_pc'[t] = "woken"

\* C22: after release() every thread blocked in wait_for_release is woken
\* and returns, provided the clutch is not paused again first: the release
\* wakes every parked thread, none stays parked on a released clutch, and a
\* thread inside wait_for_release of a released clutch returns unless the
\* clutch is paused again.
NoLostClutchWakeup ==
    /\ []ReleasedClutchParksNoThread
    /\ [][ReleaseWakesWaiters]_vars
    /\ \A t \in ControlledThreads :
          (InWaitForRelease(t) /\ ~clutch_paused)
              ~> (thread_pc[t] = "returned" \/ clutch_paused)

\* Two threads were woken by a release and have not yet returned.
NoLostClutchWakeupWitness ==
    /\ ~clutch_paused
    /\ \E t, u \in ControlledThreads :
          t # u /\ thread_pc[t] = "woken" /\ thread_pc[u] = "woken"

----------------------------------------------------------------------------
\* The watcher's handler (source_directory_watcher.rs).

\* on_update has been called.
OnUpdateRun == call # <<>> /\ call.fn = "on_update"

\* The places in `ops` of the operations on path p: the entries for p whose
\* op is known.
OperationsOn(ops, p) ==
    {i \in 1..Len(ops) : ops[i].path = p /\ ops[i].op # <<>>}

\* The last operation seen for path p, which has one.
LastPlace(ops, p) ==
    CHOOSE i \in OperationsOn(ops, p) : \A j \in OperationsOn(ops, p) : j <= i

LastOperation(ops, p) == ops[LastPlace(ops, p)].op[1]

\* The events sent for path p.
SentFor(sent, p) == {i \in 1..Len(sent) : sent[i].path = p}

\* C23: one invocation of on_update sends at most one event per distinct
\* path, and that event is derived from the last operation seen for the
\* path: it is a Remove exactly when that operation has the remove flag, and
\* a FileUpdate only when that operation has create, rename or write.
OneEventFromLastOperation ==
    OnUpdateRun =>
        /\ \A p \in WatchedPaths : Cardinality(SentFor(call.sent, p)) <= 1
        /\ \A i \in 1..Len(call.sent) :
              LET p == call.sent[i].path
              IN  /\ OperationsOn(call.arg, p) # {}
                  /\ call.sent[i].kind = "Remove"
                        <=> IsRemove(LastOperation(call.arg, p))
                  /\ call.sent[i].kind = "FileUpdate"
                        => LastOperation(call.arg, p)
                             \cap {"CREATE", "RENAME", "WRITE"} # {}

\* A path written and then removed in one invocation, among operations on
\* another path: one Remove is sent for it.
OneEventFromLastOperationWitness ==
    /\ OnUpdateRun
    /\ Len(call.arg) = 3
    /\ call.arg[1].path = call.arg[3].path
    /\ call.arg[2].path # call.arg[1].path
    /\ call.arg[1].op = <<{"WRITE"}>>
    /\ call.arg[3].op = <<{"REMOVE"}>>
    /\ \E i \in 1..Len(call.sent) :
          call.sent[i] = [kind |-> "Remove", path |-> call.arg[1].path]

\* C24: the events one invocation sends are in the arrival order of the
\* surviving operations: when the last operation for path P arrived before
\* the last operation for path Q, the event of P is sent before that of Q.
SentInArrivalOrderOfSurvivors ==
    OnUpdateRun =>
        \A i, j \in 1..Len(call.sent) :
            i < j => LastPlace(call.arg, call.sent[i].path)
                       < LastPlace(call.arg, call.sent[j].path)

\* What send_event is to send for a surviving operation on path p.
ExpectedEvents(flags, p, files) ==
    IF "REMOVE" \in flags THEN {[kind |-> "Remove", path |-> p]}
    ELSE IF p \in files /\ flags \cap {"CREATE", "RENAME", "WRITE"} # {}
    THEN {[kind |-> "FileUpdate", path |-> p]}
    ELSE {}

\* C25: for each surviving operation, Remove(path) is sent when the flags
\* include remove, whether or not the path exists; else FileUpdate(path) is
\* sent if and only if the path is a regular file at the time and the flags
\* include create, rename or write; in every other case nothing is sent.
SurvivorsSentByFlags ==
    OnUpdateRun =>
        \A p \in WatchedPaths :
            {call.sent[i] : i \in SentFor(call.sent, p)}
              = IF OperationsOn(call.arg, p) = {} THEN {}
                ELSE ExpectedEvents(LastOperation(call.arg, p), p,
                                    source_files)

\* A Remove sent for a path that is a file, a write that is dropped because
\* its path is no file.
SurvivorsSentByFlagsWitness ==
    /\ OnUpdateRun
    /\ Len(call.arg) = 2
    /\ call.arg[1] = [path |-> <<"src", "x">>, op |-> <<{"CREATE", "REMOVE"}>>]
    /\ call.arg[2] = [path |-> <<"src", "y">>, op |-> <<{"WRITE"}>>]
    /\ source_files = {<<"src", "x">>}
    /\ call.sent = <<[kind |-> "Remove", path |-> <<"src", "x">>]>>

----------------------------------------------------------------------------
\* The paths the destination writes and removes
\* (shadow_copy_destination.rs).

\* A FileSync job handed a path at or below the source directory to
\* copy_file or remove_file_or_directory, which returned true.
DestinationActed ==
    /\ call # <<>>
    /\ call.fn = "FileSync"
    /\ IsPrefix(SourceDirectory, call.arg.path)
    /\ call.status = "Ok"

\* The destination directory joined with the suffix of `path` relative to
\* the source directory.
JoinedWithSuffix(path) ==
    DestinationDirectory
        \o SubSeq(path, Len(SourceDirectory) + 1, Len(path))

\* C26: for every source path passed to copy_file or
\* remove_file_or_directory, the path written or removed is the destination
\* directory joined with the path's suffix relative to the source directory,
\* and lies strictly below the destination directory: it is never the
\* destination root itself and never a path inside the source tree.
WritesStrictlyBelowDestination ==
    DestinationActed =>
        LET target == JoinedWithSuffix(call.arg.path)
        IN  /\ \A f \in (call.before \ mirror) \cup (mirror \ call.before) :
                  IsPrefix(target, f)
            /\ call.arg.kind = "FileUpdate" => target \in mirror
            /\ IsPrefix(DestinationDirectory, target)
            /\ target # DestinationDirectory
            /\ ~IsPrefix(SourceDirectory, target)

----------------------------------------------------------------------------
\* The mirror (main.rs, shadow_copy.rs, file_sync.rs,
\* source_directory_watcher.rs).

\* The ShadowCopy job and every FileSync job of the changes so far have been
\* executed.
AllSyncJobsExecuted ==
    call # <<>> /\ watching /\ ops_buffer = <<>> /\ channel = <<>>

\* C27: once the initial ShadowCopy job and every FileSync job produced from
\* the changes of the source tree have been executed, the mirror holds a
\* file for every file below the source directory and nothing at a path
\* whose source file is gone.
MirrorFidelity ==
    AllSyncJobsExecuted =>
        mirror = {GetPathInDestination(f)[1] : f \in source_files}

----------------------------------------------------------------------------
\* The life of the temp directory (shadow_copy_destination.rs).

\* C28: an auto-temp destination directory is removed exactly when the last
\* reference to it is released: it exists while any reference is alive and
\* no longer exists once the last one is dropped.
TempDirectoryLivesWithReferences ==
    destination = "TempDirectory" => (dir_exists <=> references # {})

----------------------------------------------------------------------------
\* Job ids (jobs.rs).

\* C29: job ids are unique and strictly increasing in creation order, also
\* when several threads create jobs at once: no two calls of JobId::new
\* return the same id, and a call that began after another had returned
\* returns a larger id.
JobIdsUniqueAndIncreasing ==
    /\ \A i, j \in 1..Len(made) : i # j => made[i].id # made[j].id
    /\ \A j \in 1..Len(made) :
          \A i \in 1..made[j].began : made[i].id < made[j].id

\* Two calls that overlapped and returned in the other order than they took
\* their ids, and a third that began after both.
JobIdsUniqueAndIncreasingWitness ==
    /\ Len(made) = 3
    /\ made[2].began = 0
    /\ made[2].id < made[1].id
    /\ made[3].began = 2

----------------------------------------------------------------------------
\* The parser (cargo_test_parser).

\* parse_test_list has been called.
ParseRun == call # <<>> /\ call.fn = "parse_test_list"

\* The names of the lines of `lines` that end in ": test", in input order.
RECURSIVE TestLineNames(_)
TestLineNames(lines) ==
    IF lines = <<>> THEN <<>>
    ELSE (IF Head(lines).kind = "test" THEN <<Head(lines).text[1]>>
          ELSE <<>>) \o TestLineNames(Tail(lines))

\* The listing is one unit-test block: a Running line, lines that are unit
\* tests, benchmarks or blank, and the summary line.
OneUnitBlock(lines) ==
    /\ Len(lines) >= 2
    /\ lines[1].kind = "Running"
    /\ lines[Len(lines)].kind = "summary"
    /\ \A i \in 2..(Len(lines) - 1) :
          lines[i].kind \in {"test", "bench", "blank"}

\* C30: for a Running block with k lines ending in ": test", closed by a
\* summary line that declares n tests: if n = k the parse yields an inventory
\* for the crate with exactly those k names in input order, and if n differs
\* from k it fails with UnitTestMiscount carrying the count k.
SummaryCountChecked ==
    ParseRun /\ OneUnitBlock(call.arg) =>
        LET names == TestLineNames(call.arg)
            n == call.arg[Len(call.arg)].num
        IN  IF n = Len(names)
            THEN /\ call.result.ok
                 /\ Len(call.result.tests) = 1
                 /\ call.result.tests[1].crate_name.full_name
                       = call.arg[1].text
                 /\ call.result.tests[1].tests = names
            ELSE /\ ~call.result.ok
                 /\ call.result.kind = "UnitTestMiscount"
                 /\ call.result.count = <<Len(names)>>

\* A block of two tests and a benchmark line whose summary declares three:
\* the miscount carries two.
SummaryCountCheckedWitness ==
    /\ ParseRun
    /\ OneUnitBlock(call.arg)
    /\ Len(TestLineNames(call.arg)) = 2
    /\ Len(call.arg) = 5
    /\ call.arg[5].num = 3
    /\ call.result.kind = "UnitTestMiscount"
    /\ call.result.count = <<2>>


\* A Running or Doc-tests line.
IsSectionLine(line) == line.kind \in {"Running", "Doc-tests"}

\* The number of the header line of the block that is open after line i of
\* the listing, 0 when no block is open: a section line opens a block and
\* the next summary line closes it.
RECURSIVE OpenBlock(_, _)
OpenBlock(lines, i) ==
    IF i = 0 THEN 0
    ELSE LET open == OpenBlock(lines, i - 1)
         IN  IF open = 0
             THEN IF IsSectionLine(lines[i]) THEN i ELSE 0
             ELSE IF lines[i].kind = "summary" THEN 0 ELSE open

\* The header opens a block: a Running line with a crate name that parses,
\* or a Doc-tests line that names a crate by a word without '-'.
OpensBlock(header) ==
    \/ header.kind = "Running" /\ CrateNameParse(header.text).ok
    \/ /\ header.kind = "Doc-tests"
       /\ Trim(header.text) # <<>>
       /\ RFind(header.text, "-") = 0

\* A line that the block of the header reads on from: any line but a
\* section or summary line in a unit-test block, a doc-test line or a blank
\* line in a doc-test block.
ReadOnIn(header, line) ==
    IF header.kind = "Running"
    THEN ~IsSectionLine(line) /\ line.kind # "summary"
    ELSE line.kind \in {"doctest", "blank"}

\* Line p of the listing is a section line inside the block that line h
\* opened, and the parse gets as far as line p.
SectionInsideBlock(lines, h, p) ==
    /\ h < p
    /\ OpenBlock(lines, h - 1) = 0
    /\ ParseTestList(SubSeq(lines, 1, h - 1)).ok
    /\ OpensBlock(lines[h])
    /\ \A j \in (h + 1)..(p - 1) : ReadOnIn(lines[h], lines[j])
    /\ IsSectionLine(lines[p])

\* C31: if a Running or Doc-tests line appears inside a unit-test block or a
\* doc-test block before the block's summary line, the parse fails with
\* SectionOverrun, reports the number and the text of that line, and returns
\* no inventories.
SectionOverrunReported ==
    ParseRun =>
        \A h \in 1..Len(call.arg) : \A p \in 1..Len(call.arg) :
            SectionInsideBlock(call.arg, h, p) =>
                /\ ~call.result.ok
                /\ call.result.kind = "SectionOverrun"
                /\ call.result.line_number = p
                /\ call.result.line = <<call.arg[p]>>
                /\ call.result.tests = <<>>

\* The listing of a closed unit-test block, then a doc-test block with a
\* doc test and a Running line at line 5 before any summary line: the error
\* is reported at line 5.
SectionOverrunReportedWitness ==
    /\ ParseRun
    /\ Len(call.arg) = 5
    /\ call.arg[1].kind = "Running"
    /\ call.arg[2].kind = "summary"
    /\ call.arg[3].kind = "Doc-tests"
    /\ call.arg[4].kind = "doctest"
    /\ call.arg[5].kind = "Running"
    /\ SectionInsideBlock(call.arg, 3, 5)
    /\ call.result.kind = "SectionOverrun"
    /\ call.result.line_number = 5

\* The doc tests of the doc-test lines among lines from..to of the listing,
\* in input order.
RECURSIVE DocTestsOf(_, _, _)
DocTestsOf(lines, from, to) ==
    IF from > to THEN <<>>
    ELSE (IF lines[from].kind = "doctest"
          THEN <<[name |-> lines[from].text[2],
                  line_number |-> lines[from].num,
                  file_name |-> lines[from].text[1]]>>
          ELSE <<>>) \o DocTestsOf(lines, from + 1, to)

\* The listing ends with a doc-test block that line h opens: the parse gets
\* as far as line h outside every block, doc-test lines and blank lines
\* follow, and the last line is the summary line of the block.
EndsWithDocBlock(lines, h) ==
    /\ h < Len(lines)
    /\ OpenBlock(lines, h - 1) = 0
    /\ ParseTestList(SubSeq(lines, 1, h - 1)).ok
    /\ lines[h].kind = "Doc-tests"
    /\ \A j \in (h + 1)..(Len(lines) - 1) :
          lines[j].kind \in {"doctest", "blank"}
    /\ lines[Len(lines)].kind = "summary"

\* C32: for a Doc-tests header naming b, whatever b is: the declared count
\* is checked against the doc-test lines of the block, and when they agree
\* the doc tests of the block are attached to the inventory of the earlier
\* crate with basename b and no inventory is created, or, when there is no
\* such crate, one inventory with full_name = name = basename = b and
\* uuid = "" is appended and receives them.
DocTestsAttachedByBasename ==
    ParseRun =>
        \A h \in 1..Len(call.arg) :
            EndsWithDocBlock(call.arg, h) =>
                LET lines == call.arg
                    b == lines[h].text
                    before == ParseTestList(SubSeq(lines, 1, h - 1)).tests
                    docs == DocTestsOf(lines, h + 1, Len(lines) - 1)
                    c == FindBasename(before, b)
                    after == call.result.tests
                IN  IF lines[Len(lines)].num # Len(docs)
                    THEN ~call.result.ok /\ call.result.kind # "panic"
                    ELSE /\ call.result.ok
                         /\ IF c # 0
                            THEN /\ Len(after) = Len(before)
                                 /\ after[c].doc_tests
                                       = before[c].doc_tests \o docs
                                 /\ \A j \in 1..Len(before) :
                                       j # c => after[j] = before[j]
                            ELSE /\ Len(after) = Len(before) + 1
                                 /\ SubSeq(after, 1, Len(before)) = before
                                 /\ after[Len(after)].crate_name
                                       = [ok |-> TRUE, full_name |-> b,
                                          uuid |-> <<>>, name |-> b,
                                          basename |-> b]
                                 /\ after[Len(after)].doc_tests = docs

\* CrateName::parse has been called.
CrateNameRun == call # <<>> /\ call.fn = "CrateName::parse"

\* The places of text that hold something other than white space.
Inked(text) == {i \in 1..Len(text) : text[i] # " "}

\* The text from its first to its last character that is not white space.
Trimmed(text) ==
    IF Inked(text) = {} THEN <<>>
    ELSE SubSeq(text,
                CHOOSE i \in Inked(text) : \A j \in Inked(text) : i <= j,
                CHOOSE i \in Inked(text) : \A j \in Inked(text) : j <= i)

\* The places of the character c in text.
PlacesOf(text, c) == {i \in 1..Len(text) : text[i] = c}

\* The last of a set of places, 0 for none.
LastOf(places) ==
    IF places = {} THEN 0
    ELSE CHOOSE i \in places : \A j \in places : j <= i

UnclosedBlockFails ==
    ParseRun /\ OpenBlock(call.arg, Len(call.arg)) # 0 => ~call.result.ok

----------------------------------------------------------------------------
\* The parse cursor (parse_context.rs).

\* How many lines the cursor has gone over: 0 before the first next(), the
\* line number while in progress, one more than the lines when finished.
CursorPos(c) ==
    IF c.current_line_number.tag = "NotStarted" THEN 0
    ELSE IF c.current_line_number.tag = "InProgress"
    THEN c.current_line_number.idx
    ELSE Len(c.lines) + 1

\* The cursor is at the end of the input for good.
CursorEnded(c) == c.lines = <<>> \/ c.current_line_number.tag = "Finished"

\* C36: a peek() leaves current_line() and current_line_number() as they
\* were, and the next() that follows returns the line the peek() returned;
\* a next() goes on by exactly one line, returns it and reports its 1-based
\* number; after the last line, and on every later call, next() returns
\* end-of-input and current_line_number() is absent.
CursorLaws ==
    [][/\ call'.fn = "peek" =>
            /\ CurrentLine(ctx') = CurrentLine(ctx)
            /\ CurrentLineNumber(ctx') = CurrentLineNumber(ctx)
       /\ call # <<>> /\ call.fn = "peek" /\ call'.fn = "next" =>
            call'.result = call.result
       /\ call'.fn = "next" =>
            IF CursorPos(ctx) < Len(ctx.lines)
            THEN /\ call'.result = <<ctx.lines[CursorPos(ctx) + 1]>>
                 /\ CurrentLineNumber(ctx') = <<CursorPos(ctx) + 1>>
                 /\ CurrentLine(ctx') = call'.result
            ELSE /\ call'.result = <<>>
                 /\ CurrentLineNumber(ctx') = <<>>
                 /\ CursorEnded(ctx')
       /\ CursorEnded(ctx) => CursorEnded(ctx')]_vars

\* Over four lines: a next() called after the end of the input was already
\* reached returns end-of-input again.
CursorLawsWitness ==
    /\ call # <<>>
    /\ call.fn = "next"
    /\ Len(ctx.lines) = 4
    /\ call.arg.current_line_number = Finished
    /\ call.result = <<>>
    /\ CurrentLineNumber(ctx) = <<>>

----------------------------------------------------------------------------
\* The engine: follow-ups, flags and the conservation of jobs.

\* The executor is at the end of a completion, where it looks at the
\* pending queue and the flags.
AtFollowUp == pc = "follow_up" /\ pc' = "loop"

\* C34: at the end of a completion the engine adds a follow-up only to an
\* empty pending queue, and then one job only: BuildAllTests if
\* build_required, else ListAllTests if list_required, else RunTests if
\* run_required; with a pending queue that is not empty nothing is added;
\* the flags keep their values either way.
FollowUpOnlyWhenQueueEmpty ==
    [][AtFollowUp =>
         /\ build_tests_required' = build_tests_required
         /\ list_tests_required' = list_tests_required
         /\ run_tests_required' = run_tests_required
         /\ IF pending_jobs # <<>>
            THEN pending_jobs' = pending_jobs
            ELSE IF build_tests_required
            THEN /\ Len(pending_jobs') = 1
                 /\ pending_jobs'[1].kind = "BuildAllTests"
            ELSE IF list_tests_required
            THEN /\ Len(pending_jobs') = 1
                 /\ pending_jobs'[1].kind = "ListAllTests"
            ELSE IF run_tests_required
            THEN /\ Len(pending_jobs') = 1
                 /\ pending_jobs'[1].kind = "RunTests"
            ELSE pending_jobs' = <<>>]_vars

\* A completion has just ended with list_required and run_required both
\* true and an empty queue, and the one job added is a ListAllTests job.
FollowUpOnlyWhenQueueEmptyWitness ==
    /\ pc = "loop"
    /\ completed_jobs # <<>>
    /\ ~build_tests_required
    /\ list_tests_required
    /\ run_tests_required
    /\ Len(pending_jobs) = 1
    /\ ~pending_jobs[1].external
    /\ pending_jobs[1].kind = "ListAllTests"

\* The completed job is one whose completion writes no flag: a FileSync job
\* with Error, or a BuildWorkspace job.
CompletedWithoutEffect ==
    /\ completed_job # <<>>
    /\ \/ /\ completed_job[1].kind = "FileSync"
          /\ completed_job[1].status = "Error"
       \/ completed_job[1].kind = "BuildWorkspace"

\* C35: from the return of a FileSync job with Error, or of a
\* BuildWorkspace job with either outcome, to the end of its completion, no
\* step changes build_required, list_required or run_required.
NoFlagChangeOnNeutralCompletion ==
    [][CompletedWithoutEffect =>
         /\ build_tests_required' = build_tests_required
         /\ list_tests_required' = list_tests_required
         /\ run_tests_required' = run_tests_required]_vars

\* A FileSync job has completed with Error while build_required was true,
\* and its completion has left the flag true.
NoFlagChangeOnNeutralCompletionWitness ==
    /\ pc = "follow_up"
    /\ completed_job # <<>>
    /\ completed_job[1].kind = "FileSync"
    /\ completed_job[1].status = "Error"
    /\ build_tests_required

\* The places of the pending queue that hold a job the engine made.
SynthesisedPlaces == {i \in 1..Len(pending_jobs) : ~pending_jobs[i].external}

\* C38: the pending queue holds at most one job made by the engine, and
\* that job is at the head of the queue.
OneFollowUpAtHead ==
    /\ Cardinality(SynthesisedPlaces) <= 1
    /\ SynthesisedPlaces \subseteq {1}

\* A follow-up at the head of the queue with an external job behind it.
OneFollowUpAtHeadWitness ==
    /\ Len(pending_jobs) = 2
    /\ ~pending_jobs[1].external
    /\ pending_jobs[2].external

\* Where the executor is between the pop of a job and the push of it to the
\* completed log.
OnTheWay == {"start_job", "executing", "classify", "lock_pending",
             "push_completed"}

\* How many places of the queue or log s hold the job with the id.
PlacesWithId(s, id) == Cardinality({k \in 1..Len(s) : s[k].id = id})

\* C39: every job that was added is in exactly one place: in the pending
\* queue, with the executor on its way from the pop to the completed log,
\* or in the completed log, once and with status Ok or Error; so every job
\* popped gets to the completed log, and no job is pending and completed at
\* once.
JobConservation ==
    /\ \A i \in 1..Len(appended) :
          PlacesWithId(pending_jobs, appended[i].id)
            + PlacesWithId(completed_jobs, appended[i].id)
            + (IF job # <<>> /\ job[1].id = appended[i].id /\ pc \in OnTheWay
               THEN 1 ELSE 0) = 1
    /\ \A k \in 1..Len(completed_jobs) :
          completed_jobs[k].status \in {"Ok", "Error"}

----------------------------------------------------------------------------
\* The copies of a destination directory.

\* A holder lets go of its copy and another holder still has one.
ReleaseWithOthersLeft ==
    /\ references' # references
    /\ references' \subseteq references
    /\ references' # {}

\* C37: when one holder releases its copy of a copying destination, Named
\* or auto-temp, while another holder still has a copy of it, the mirror
\* directory is not deleted.
ReleaseKeepsMirror ==
    [][IsCopying(destination) /\ ReleaseWithOthersLeft /\ dir_exists
         => dir_exists']_vars
====
